---------------------------- MODULE Spec2Model ----------------------------
(***************************************************************************)
(* The long-term semantic memory subsystem of picoclaw (package memory):   *)
(* the embedding providers, MemoryStore (Store / Search / Delete / Count), *)
(* AutoCapture and the recall / capture tool adapters.                     *)
(*                                                                         *)
(* Representation.                                                         *)
(*  - A Go string is the sequence of its runes; a rune is written as a     *)
(*    TLA+ string: an ASCII character stands for itself, any other rune is *)
(*    written "U+XXXX".  CodePoint gives its number, EncodeRune its UTF-8  *)
(*    bytes, so len(text) is the byte length as in Go.                     *)
(*  - A []float32 is kept sparse and exact: [len, num, den2] stands for    *)
(*    the vector of length len whose component i is num[i]/sqrt(den2) for  *)
(*    i in DOMAIN num and 0 elsewhere.  Float32 rounding is not modelled:  *)
(*    arithmetic is that of the reals.                                     *)
(*  - A float32 score or threshold is [d, p], standing for d/sqrt(p).      *)
(*  - An importance is kept in tenths (5 stands for 0.5).                  *)
(*  - The SQLite table is the sequence of its rows in insertion order;     *)
(*    time.Now() is a clock that strictly increases from one Store to the  *)
(*    next, uuid.New() never repeats, and SQLite itself does not fail.     *)
(*  - calls holds, for each concurrent caller, the call it is inside and   *)
(*    what its last call returned; storedIds is the history of the ids     *)
(*    successful Store calls returned; fn is the argument and the result   *)
(*    of a direct call of a stateless function of AutoCapture.             *)
(*                                                                         *)
(* The Telegram channel that carries the conversation is modelled as far   *)
(* as its goroutines go: thinking is the state of the typing indicator     *)
(* (TelegramChannel.stopThinking and the refresh loops), stream the state  *)
(* of one StreamingSender.SendLargeMessageParallel call.                   *)
(***************************************************************************)
EXTENDS Integers, Sequences, FiniteSets, TLC

VARIABLES env, phase, config, embedder, db, clock, nextId, deleted, last,
          calls, storedIds, fn, thinking, stream

vars == <<env, phase, config, embedder, db, clock, nextId, deleted, last, calls, storedIds, fn,
          thinking, stream>>

\* The variables of package memory.
memoryVars ==
    <<env, phase, config, embedder, db, clock, nextId, deleted, last, calls, storedIds, fn>>

(***************************************************************************)
(* Bounds of the model.                                                    *)
(***************************************************************************)
\* Store calls that reach the INSERT in one run (caps clock and nextId).
MaxStores == 3

(***************************************************************************)
(* Runes and strings.                                                      *)
(***************************************************************************)
LowerLetters ==
    <<"a","b","c","d","e","f","g","h","i","j","k","l","m",
      "n","o","p","q","r","s","t","u","v","w","x","y","z">>

UpperLetters ==
    <<"A","B","C","D","E","F","G","H","I","J","K","L","M",
      "N","O","P","Q","R","S","T","U","V","W","X","Y","Z">>

DigitRunes == <<"0","1","2","3","4","5","6","7","8","9">>

Range(s) == {s[i] : i \in DOMAIN s}

IndexOf(s, x) == CHOOSE i \in DOMAIN s : s[i] = x

\* The Unicode code point of a rune of the model's alphabet.
CodePoint(r) ==
    IF r \in Range(LowerLetters) THEN 96 + IndexOf(LowerLetters, r)
    ELSE IF r \in Range(UpperLetters) THEN 64 + IndexOf(UpperLetters, r)
    ELSE IF r \in Range(DigitRunes) THEN 47 + IndexOf(DigitRunes, r)
    ELSE CASE r = " " -> 32
           [] r = "\n" -> 10
           [] r = "!" -> 33
           [] r = "#" -> 35
           [] r = ":" -> 58
           [] r = "[" -> 91
           [] r = "]" -> 93
           [] r = "+" -> 43
           [] r = "-" -> 45
           [] r = "." -> 46
           [] r = "/" -> 47
           [] r = "<" -> 60
           [] r = ">" -> 62
           [] r = "@" -> 64
           [] r = "_" -> 95
           [] r = "U+00E1" -> 225        \* a with acute
           [] r = "U+0161" -> 353        \* s with caron
           [] r = "U+016F" -> 367        \* u with ring
           [] r = "U+2600" -> 9728       \* black sun with rays
           [] r = "U+1F600" -> 128512    \* grinning face

\* unicode.ToLower on the alphabet: only the ASCII capitals have a lower case.
ToLowerRune(r) ==
    IF r \in Range(UpperLetters) THEN LowerLetters[IndexOf(UpperLetters, r)] ELSE r

\* strings.ToLower
ToLower(text) == [i \in DOMAIN text |-> ToLowerRune(text[i])]

\* The UTF-8 encoding of one rune.
EncodeRune(r) ==
    LET cp == CodePoint(r) IN
    IF cp < 128 THEN <<cp>>
    ELSE IF cp < 2048 THEN <<192 + (cp \div 64), 128 + (cp % 64)>>
    ELSE IF cp < 65536 THEN
        <<224 + (cp \div 4096), 128 + ((cp \div 64) % 64), 128 + (cp % 64)>>
    ELSE <<240 + (cp \div 262144), 128 + ((cp \div 4096) % 64),
           128 + ((cp \div 64) % 64), 128 + (cp % 64)>>

RECURSIVE Bytes(_)
\* The bytes of a Go string: the encodings of its runes, one after the other
\* (computed by halves, so that a long text does not nest deeply).
Bytes(text) ==
    IF text = <<>> THEN <<>>
    ELSE IF Len(text) = 1 THEN EncodeRune(text[1])
    ELSE LET h == Len(text) \div 2
         IN Bytes(SubSeq(text, 1, h)) \o Bytes(SubSeq(text, h + 1, Len(text)))

\* len(text): the number of bytes.
ByteLen(text) == Len(Bytes(text))

IsCont(b) == b >= 128 /\ b < 192

RECURSIVE DecodeRunes(_)
\* The code points a `for _, c := range s` loop yields over the bytes s: a
\* well-formed sequence yields its rune, any other byte yields U+FFFD.
DecodeRunes(bs) ==
    IF bs = <<>> THEN <<>>
    ELSE LET b == bs[1] IN
         IF b < 128 THEN <<b>> \o DecodeRunes(Tail(bs))
         ELSE IF b >= 194 /\ b < 224 /\ Len(bs) >= 2 /\ IsCont(bs[2]) THEN
             <<(b - 192) * 64 + (bs[2] - 128)>> \o DecodeRunes(SubSeq(bs, 3, Len(bs)))
         ELSE IF b >= 224 /\ b < 240 /\ Len(bs) >= 3 /\ IsCont(bs[2]) /\ IsCont(bs[3]) THEN
             <<(b - 224) * 4096 + (bs[2] - 128) * 64 + (bs[3] - 128)>>
                 \o DecodeRunes(SubSeq(bs, 4, Len(bs)))
         ELSE IF b >= 240 /\ b < 245 /\ Len(bs) >= 4
                 /\ IsCont(bs[2]) /\ IsCont(bs[3]) /\ IsCont(bs[4]) THEN
             <<(b - 240) * 262144 + (bs[2] - 128) * 4096 + (bs[3] - 128) * 64 + (bs[4] - 128)>>
                 \o DecodeRunes(SubSeq(bs, 5, Len(bs)))
         ELSE <<65533>> \o DecodeRunes(Tail(bs))

\* strings.HasPrefix / the literal lit occurs in text at position i.
OccursAt(text, lit, i) ==
    /\ i >= 1
    /\ i + Len(lit) - 1 <= Len(text)
    /\ \A k \in 1..Len(lit) : text[i + k - 1] = lit[k]

\* strings.Contains
Contains(text, lit) == \E i \in 1..(Len(text) + 1) : OccursAt(text, lit, i)

(***************************************************************************)
(* Texts the callers pass in.                                              *)
(***************************************************************************)
TxtEmpty == <<>>
TxtAb == <<"a","b">>
TxtLikeTea == <<"i"," ","l","i","k","e"," ","t","e","a">>
TxtLikeCoffee == <<"i"," ","l","i","k","e"," ","c","o","f","f","e","e">>
TxtImportant == <<"I","m","p","o","r","t","a","n","t","!">>
TxtAlways == <<"a","l","w","a","y","s"," ","t","e","a">>
TxtBoth == <<"a","l","w","a","y","s"," ","i","m","p","o","r","t","a","n","t">>
TxtHello == <<"h","e","l","l","o"," ","w","o","r","l","d">>

AllTexts ==
    {TxtEmpty, TxtAb, TxtLikeTea, TxtLikeCoffee, TxtImportant, TxtAlways, TxtBoth, TxtHello}

(***************************************************************************)
(* Vectors and scores.                                                     *)
(***************************************************************************)
RECURSIVE DotOver(_, _, _)
\* The sum of a[i] * b[i] over the indices of S.
DotOver(S, a, b) ==
    IF S = {} THEN 0
    ELSE LET i == CHOOSE j \in S : TRUE
         IN a[i] * b[i] + DotOver(S \ {i}, a, b)

\* The sum of the squares of the numerators of a sparse vector.
SumSq(num) == DotOver(DOMAIN num, num, num)

ZeroScore == [d |-> 0, p |-> 1]

\* s < t for scores d/sqrt(p), p > 0.
ScoreLt(s, t) ==
    IF s.d >= 0 /\ t.d >= 0 THEN s.d * s.d * t.p < t.d * t.d * s.p
    ELSE IF s.d < 0 /\ t.d < 0 THEN s.d * s.d * t.p > t.d * t.d * s.p
    ELSE s.d < t.d

ScoreLeq(s, t) == ~ScoreLt(t, s)

\* The vector has L2 norm 1.
UnitNorm(v) == SumSq(v.num) = v.den2

\* normalizeVector: x / sqrt(sum of squares); a zero vector is returned as is.
normalizeVector(v) ==
    LET sum == SumSq(v.num) IN
    IF sum = 0 THEN v ELSE [len |-> v.len, num |-> v.num, den2 |-> sum]

\* cosineSimilarity: dot / (|a| * |b|); 0 on a length mismatch or a zero norm.
cosineSimilarity(a, b) ==
    IF a.len # b.len THEN ZeroScore
    ELSE LET dotProduct == DotOver((DOMAIN a.num) \cap (DOMAIN b.num), a.num, b.num)
             normA == SumSq(a.num)
             normB == SumSq(b.num)
         IN IF normA = 0 \/ normB = 0 THEN ZeroScore
            ELSE [d |-> dotProduct, p |-> normA * normB]


(***************************************************************************)
(* Embedding providers.                                                    *)
(***************************************************************************)
\* Dimensions the constructors assume.
SmallModelDims == 1536
LargeModelDims == 3072
MiniLMDims == 384
LargeLocalDims == 768

\* The hash seed of hashString.
HashSeed == 5381

\* Files the constructors and Embed look for.
HomeMiniLM == "~/.picoclaw/models/embeddings/all-MiniLM-L6-v2.gguf"
HomeModel == "~/.picoclaw/models/embeddings/model.gguf"
OptLargeModel == "/opt/models/bge-large.gguf"
OptScript == "/opt/models/embed.py"
HomeScript == "~/.picoclaw/models/embeddings/embed.py"

\* filepath.Join(filepath.Dir(modelPath), "embed.py")
ScriptPath(modelPath) ==
    IF modelPath = OptLargeModel THEN OptScript ELSE HomeScript

\* strings.Contains(modelPath, "large")
PathContainsLarge(modelPath) == modelPath = OptLargeModel

\* strings.Contains(model, "ada")
ModelContainsAda(model) == model = "text-embedding-ada-002"

\* A (nil, error) return of a constructor.
NoEmbedder == [kind |-> "none", model |-> "", modelPath |-> "", dims |-> 0]

\* NewOpenAIEmbedder: the key comes from the argument or from OPENAI_API_KEY.
NewOpenAIEmbedder(apiKey, model) ==
    LET key == IF apiKey = "" THEN env.OPENAI_API_KEY ELSE apiKey
        mdl == IF model = "" THEN "text-embedding-3-small" ELSE model
        dims == IF mdl = "text-embedding-3-large" THEN LargeModelDims
                ELSE IF ModelContainsAda(mdl) THEN SmallModelDims
                ELSE SmallModelDims
    IN IF key = "" THEN [err |-> "OpenAI API key not provided", embedder |-> NoEmbedder]
       ELSE [err |-> "nil",
             embedder |-> [kind |-> "openai", model |-> mdl, modelPath |-> "", dims |-> dims]]

\* NewLocalEmbedder: the model file is the argument or the first default found.
NewLocalEmbedder(modelPath) ==
    LET candidates == <<HomeMiniLM, HomeModel>>
        found == {i \in DOMAIN candidates : candidates[i] \in env.files}
        path == IF modelPath # "" THEN modelPath
                ELSE IF found = {} THEN ""
                ELSE candidates[CHOOSE i \in found : \A j \in found : i <= j]
        dims == IF PathContainsLarge(path) THEN LargeLocalDims ELSE MiniLMDims
    IN IF path = "" THEN
           [err |-> "local model path not provided and no default found",
            embedder |-> NoEmbedder]
       ELSE IF path \notin env.files THEN
           [err |-> "model file not found", embedder |-> NoEmbedder]
       ELSE [err |-> "nil",
             embedder |-> [kind |-> "local", model |-> "", modelPath |-> path, dims |-> dims]]

\* initEmbedder: only "openai" and "local" are known providers.
initEmbedder(cfg) ==
    IF cfg.EmbeddingProvider = "openai" THEN
        NewOpenAIEmbedder(cfg.OpenAIAPIKey, cfg.EmbeddingModel)
    ELSE IF cfg.EmbeddingProvider = "local" THEN
        NewLocalEmbedder(cfg.LocalModelPath)
    ELSE [err |-> "unknown embedding provider", embedder |-> NoEmbedder]

\* A dense vector written sparsely: its nonzero components by 0-based index.
RawVector(len, num) == [len |-> len, num |-> num, den2 |-> 1]

NoVector == RawVector(0, <<>>)

\* The embedding the remote endpoint answers with (data[0].embedding): the
\* remote model is a function of the input text.
ApiVector(dims, text) ==
    IF text = TxtLikeTea THEN RawVector(dims, (0 :> 1))
    ELSE IF text = TxtLikeCoffee THEN RawVector(dims, (0 :> 3) @@ (1 :> 4))
    ELSE RawVector(dims, (0 :> 1) @@ (1 :> -2))

\* The number of components of the arrays the installed embedding script prints.
ScriptOutputLen == 1024

\* The array the embedding script prints for a text: json.Unmarshal takes an
\* array of any length, and the script knows nothing of the embedder's dims.
ScriptVector(text) ==
    IF text = TxtLikeTea THEN RawVector(ScriptOutputLen, (1 :> 2))
    ELSE IF text = TxtLikeCoffee THEN RawVector(ScriptOutputLen, (0 :> 1) @@ (1 :> 1))
    ELSE RawVector(ScriptOutputLen, (2 :> 1))

\* extractNgrams: every window of n bytes of the lower-cased text.
extractNgrams(text, n) ==
    LET bs == Bytes(ToLower(text))
    IN [i \in 1..(IF Len(bs) >= n THEN Len(bs) - n + 1 ELSE 0) |-> SubSeq(bs, i, i + n - 1)]

RECURSIVE HashFold(_, _)
HashFold(hash, cs) ==
    IF cs = <<>> THEN hash ELSE HashFold(((hash * 32) + hash) + Head(cs), Tail(cs))

\* hashString: hash = hash<<5 + hash + c over the runes of s (no 64-bit overflow
\* for the three bytes of an n-gram).
hashString(s) == HashFold(HashSeed, DecodeRunes(s))

\* fallbackEmbedding: the histogram of the 3-grams' buckets, normalized.
fallbackEmbedding(dims, text) ==
    LET ngrams == extractNgrams(text, 3)
        idx == [k \in DOMAIN ngrams |-> hashString(ngrams[k]) % dims]
        vector == [i \in Range(idx) |-> Cardinality({k \in DOMAIN idx : idx[k] = i})]
    IN normalizeVector(RawVector(dims, vector))

\* fallbackEmbedding is a function of the text: its values on the model's texts.
FallbackVectors ==
    [dims \in {MiniLMDims, LargeLocalDims} |->
        [text \in AllTexts |-> fallbackEmbedding(dims, text)]]

\* What Embed(text) can return: [err, vec].
\*  - OpenAIEmbedder.Embed: an error (network, status, empty data) or the
\*    normalized embedding of the response;
\*  - LocalEmbedder.Embed: with an embed.py beside the model, an error or the
\*    normalized array the script printed; otherwise the hash fallback.
Embed(e, text) ==
    IF e.kind = "openai" THEN
        {[err |-> TRUE, vec |-> NoVector]}
            \cup {[err |-> FALSE, vec |-> normalizeVector(ApiVector(e.dims, text))]}
    ELSE IF ScriptPath(e.modelPath) \in env.files THEN
        {[err |-> TRUE, vec |-> NoVector]}
            \cup {[err |-> FALSE, vec |-> normalizeVector(ScriptVector(text))]}
    ELSE {[err |-> FALSE, vec |-> FallbackVectors[e.dims][text]]}

(***************************************************************************)
(* MemoryStore.                                                            *)
(***************************************************************************)
MemoryCategories == <<"preference", "decision", "entity", "fact", "other">>

\* Defaults of DefaultConfig and the cap of the candidate window.
DefaultMaxResults == 5
WindowCap == 1000

Half == [d |-> 1, p |-> 4]

\* DefaultConfig
DefaultConfig ==
    [EmbeddingProvider |-> "openai",
     EmbeddingModel |-> "text-embedding-3-small",
     OpenAIAPIKey |-> "",
     LocalModelPath |-> "",
     MinScore |-> Half,
     MaxResults |-> DefaultMaxResults,
     AutoCapture |-> TRUE]

\* A membership test that accepts every category.
isValidCategoryAcceptsAll(category) == TRUE

\* isValidCategory
isValidCategory(category) == \E i \in DOMAIN MemoryCategories : MemoryCategories[i] = category

\* uuid.New().String(): the canonical lower-case form of a fresh UUID.
NewUUID == [n |-> nextId, form |-> "canonical"]

\* strings.ToLower on an id: the upper-case spelling of a UUID becomes canonical.
ToLowerId(id) == IF id.form = "upper" THEN [n |-> id.n, form |-> "canonical"] ELSE id

\* A format check that lets every string through.
uuidRegexMatchSkipped(id) == TRUE

\* uuidRegex.MatchString: 8-4-4-4-12 lower-case hex digits.
uuidRegexMatch(id) == id.form = "canonical"

\* An operation's record: what was called and what it returned.
Outcome(op, args, embedErr, err, exec, entry, results, count, out) ==
    [op |-> op, args |-> args, embedErr |-> embedErr, err |-> err, exec |-> exec,
     entry |-> entry, results |-> results, count |-> count, out |-> out]

NoArgs == [none |-> TRUE]

\* What a tool hands back for the LLM: the message and what it lists.
ToolOutput(msg, items) == [msg |-> msg, items |-> items]

NoOutput == ToolOutput("", <<>>)

\* A Store that drops the error of Embed and inserts what it was handed.
StoreResultIgnoresEmbedError(text, importance, category, sessionKey, emb) ==
    LET cat == IF ~isValidCategory(category) THEN "other" ELSE category
        entry == [ID |-> NewUUID, Text |-> text, Vector |-> emb.vec,
                  Importance |-> importance, Category |-> cat,
                  SessionKey |-> sessionKey, CreatedAt |-> clock]
    IN [err |-> "nil", embedErr |-> emb.err, exec |-> TRUE,
        entry |-> <<entry>>, db |-> Append(db, entry)]

\* A Store that rewrites the row holding the same text instead of adding one.
StoreResultUpdatesSameText(text, importance, category, sessionKey, emb) ==
    IF emb.err THEN
        [err |-> "failed to generate embedding", embedErr |-> TRUE, exec |-> FALSE,
         entry |-> <<>>, db |-> db]
    ELSE LET cat == IF ~isValidCategory(category) THEN "other" ELSE category
             entry == [ID |-> NewUUID, Text |-> text, Vector |-> emb.vec,
                       Importance |-> importance, Category |-> cat,
                       SessionKey |-> sessionKey, CreatedAt |-> clock]
             same == {i \in DOMAIN db : db[i].Text = text}
         IN [err |-> "nil", embedErr |-> FALSE, exec |-> TRUE,
             entry |-> <<entry>>,
             db |-> IF same = {} THEN Append(db, entry)
                    ELSE [i \in DOMAIN db |->
                             IF i \in same THEN [db[i] EXCEPT !.CreatedAt = clock] ELSE db[i]]]

\* Store: embed, coerce the category, build the entry, INSERT it.
\* emb is what Embed returned.  The result is the returned (entry, err) and
\* the table after the call.
StoreResult(text, importance, category, sessionKey, emb) ==
    IF emb.err THEN
        [err |-> "failed to generate embedding", embedErr |-> TRUE, exec |-> FALSE,
         entry |-> <<>>, db |-> db]
    ELSE LET cat == IF ~isValidCategory(category) THEN "other" ELSE category
             entry == [ID |-> NewUUID, Text |-> text, Vector |-> emb.vec,
                       Importance |-> importance, Category |-> cat,
                       SessionKey |-> sessionKey, CreatedAt |-> clock]
         IN [err |-> "nil", embedErr |-> FALSE, exec |-> TRUE,
             entry |-> <<entry>>, db |-> Append(db, entry)]

\* The (text, importance, category, sessionKey) of direct Store calls.
StoreCalls ==
    {[text |-> TxtLikeTea, importance |-> 5, category |-> "preference", sessionKey |-> "s1"],
     [text |-> TxtLikeCoffee, importance |-> 5, category |-> "bogus-category", sessionKey |-> "s1"],
     [text |-> TxtAb, importance |-> 5, category |-> "fact", sessionKey |-> ""]}

\* A call that reaches the INSERT takes a fresh id and a later timestamp.
Commit(r) ==
    /\ db' = r.db
    /\ nextId' = IF r.exec THEN nextId + 1 ELSE nextId
    /\ clock' = IF r.exec THEN clock + 1 ELSE clock
    /\ storedIds' = IF r.err = "nil" THEN storedIds \cup {r.entry[1].ID} ELSE storedIds

Store ==
    /\ phase = "open"
    /\ nextId < MaxStores
    /\ \E c \in StoreCalls : \E emb \in Embed(embedder, c.text) :
        LET r == StoreResult(c.text, c.importance, c.category, c.sessionKey, emb) IN
        /\ Commit(r)
        /\ last' = Outcome("Store", c, r.embedErr, r.err, r.exec, r.entry, <<>>, 0, NoOutput)
    /\ UNCHANGED <<env, phase, config, embedder, deleted, calls, fn, thinking, stream>>

\* ORDER BY created_at DESC: the rows by decreasing timestamp (timestamps are
\* distinct).  A table whose rows already stand by increasing timestamp is
\* read backwards.
OrderByCreatedAtDesc(rows) ==
    LET n == Len(rows)
        later(r) == Cardinality({k \in 1..n : rows[k].CreatedAt > r.CreatedAt})
        ascending == \A k \in 1..(n - 1) : rows[k].CreatedAt < rows[k + 1].CreatedAt
    IN IF ascending THEN [k \in 1..n |-> rows[n - k + 1]]
       ELSE [k \in 1..n |-> CHOOSE r \in Range(rows) : later(r) = k - 1]

\* A query without its LIMIT: every row is a candidate.
CandidateWindowUnbounded(rows) == SubSeq(OrderByCreatedAtDesc(rows), 1, Len(rows))

\* ORDER BY created_at DESC LIMIT 1000: the first WindowCap rows of the order.
CandidateWindow(rows) ==
    SubSeq(OrderByCreatedAtDesc(rows), 1, IF Len(rows) > WindowCap THEN WindowCap ELSE Len(rows))

\* json.Marshal of the vector at Store and json.Unmarshal at Search: Go prints
\* a float32 with the digits that read back as the same float32.
MarshalVector(v) == [json |-> v]
UnmarshalVector(blob) == blob.json

\* The threshold test of the scoring loop.
Qualifies(score, minScore) == ScoreLeq(minScore, score)

\* The scoring loop: the candidates that reach minScore, in window order.
ScoreRows(window, queryVector, minScore) ==
    LET scored == [k \in DOMAIN window |->
                      [Entry |-> window[k],
                       Score |-> cosineSimilarity(queryVector,
                                     UnmarshalVector(MarshalVector(window[k].Vector)))]]
    IN SelectSeq(scored, LAMBDA r : Qualifies(r.Score, minScore))

Swap(r, i, j) == [r EXCEPT ![i] = r[j], ![j] = r[i]]

RECURSIVE SortInner(_, _, _)
\* for j := i + 1; j < len(results); j++ { if results[j].Score > results[i].Score { swap } }
SortInner(r, i, j) ==
    IF j > Len(r) THEN r
    ELSE SortInner(IF ScoreLt(r[i].Score, r[j].Score) THEN Swap(r, i, j) ELSE r, i, j + 1)

RECURSIVE SortOuter(_, _)
\* for i := 0; i < len(results)-1; i++ { ... }
SortOuter(r, i) ==
    IF i > Len(r) - 1 THEN r ELSE SortOuter(SortInner(r, i, i + 1), i + 1)

\* The sort of Search, by score descending.
SortByScore(results) == SortOuter(results, 1)

\* A cut that keeps one result too many.
TruncateOffByOne(results, limit) ==
    IF Len(results) > limit + 1 THEN SubSeq(results, 1, limit + 1) ELSE results

\* if len(results) > limit { results = results[:limit] }
Truncate(results, limit) ==
    IF Len(results) > limit THEN SubSeq(results, 1, limit) ELSE results

\* A limit used as given, with no default for limit <= 0.
EffectiveLimitAsGiven(limit) == limit

\* limit <= 0 and minScore <= 0 are replaced by the configured defaults.
EffectiveLimit(limit) == IF limit <= 0 THEN config.MaxResults ELSE limit
EffectiveMinScore(minScore) == IF ScoreLeq(minScore, ZeroScore) THEN config.MinScore ELSE minScore

\* A Search that reports an empty ranking as an error.
SearchResultEmptyIsError(query, limit, minScore, emb) ==
    IF emb.err THEN
        [err |-> "failed to generate query embedding", embedErr |-> TRUE, results |-> <<>>]
    ELSE LET found == Truncate(SortByScore(ScoreRows(CandidateWindow(db), emb.vec,
                                                     EffectiveMinScore(minScore))),
                               EffectiveLimit(limit))
         IN [err |-> IF found = <<>> THEN "no memories found" ELSE "nil",
             embedErr |-> FALSE, results |-> found]

\* Search: embed the query, score the window, sort, truncate.
\* emb is what Embed returned.  The result is the returned (results, err).
SearchResult(query, limit, minScore, emb) ==
    IF emb.err THEN
        [err |-> "failed to generate query embedding", embedErr |-> TRUE, results |-> <<>>]
    ELSE [err |-> "nil", embedErr |-> FALSE,
          results |-> Truncate(SortByScore(ScoreRows(CandidateWindow(db), emb.vec,
                                                     EffectiveMinScore(minScore))),
                               EffectiveLimit(limit))]

Tenth3 == [d |-> 3, p |-> 100]
MinusHalf == [d |-> -1, p |-> 4]
Tenth11 == [d |-> 11, p |-> 100]

\* The (query, limit, minScore) of direct Search calls.
SearchCalls ==
    {[query |-> TxtLikeTea, limit |-> 0, minScore |-> ZeroScore],
     [query |-> TxtLikeTea, limit |-> 5, minScore |-> Tenth3],
     [query |-> TxtLikeCoffee, limit |-> 1, minScore |-> Tenth3],
     [query |-> TxtLikeTea, limit |-> 2, minScore |-> Tenth11],
     [query |-> TxtLikeCoffee, limit |-> -1, minScore |-> MinusHalf]}

Search ==
    /\ phase = "open"
    /\ \E c \in SearchCalls : \E emb \in Embed(embedder, c.query) :
        LET r == SearchResult(c.query, c.limit, c.minScore, emb) IN
        last' = Outcome("Search", c, r.embedErr, r.err, FALSE, <<>>, r.results, 0, NoOutput)
    /\ UNCHANGED <<env, phase, config, embedder, db, clock, nextId, deleted, calls, storedIds, fn, thinking, stream>>

\* A DELETE whose comparison of ids ignores the letter case.
DeleteRowsFoldingCase(rows, id) == SelectSeq(rows, LAMBDA r : r.ID # ToLowerId(id))

\* DELETE FROM memories WHERE id = ?: the rows left (the comparison is exact).
DeleteRows(rows, id) == SelectSeq(rows, LAMBDA r : r.ID # id)

\* A Delete that reports the rows matched without removing them.
DeleteResultKeepsRows(id) ==
    IF ~uuidRegexMatch(ToLowerId(id)) THEN
        [err |-> "invalid memory ID format", exec |-> FALSE, db |-> db]
    ELSE LET rows == Len(db) - Len(DeleteRows(db, id))
         IN [err |-> IF rows = 0 THEN "memory not found" ELSE "nil", exec |-> TRUE, db |-> db]

\* Delete: validate the id, DELETE, report zero rows affected as not found.
DeleteResult(id) ==
    IF ~uuidRegexMatch(ToLowerId(id)) THEN
        [err |-> "invalid memory ID format", exec |-> FALSE, db |-> db]
    ELSE LET left == DeleteRows(db, id)
             rows == Len(db) - Len(left)
         IN [err |-> IF rows = 0 THEN "memory not found" ELSE "nil", exec |-> TRUE, db |-> left]

\* The ids Delete is called with: every id the store can issue, an upper-case
\* spelling and a string that is no UUID.
DeleteIds ==
    {[n |-> k, form |-> "canonical"] : k \in 0..(MaxStores - 1)}
        \cup {[n |-> 0, form |-> "upper"], [n |-> 0, form |-> "malformed"]}

Delete ==
    /\ phase = "open"
    /\ \E id \in DeleteIds :
        LET r == DeleteResult(id) IN
        /\ db' = r.db
        /\ deleted' = IF r.err = "nil" THEN deleted \cup {id} ELSE deleted
        /\ last' = Outcome("Delete", [id |-> id], FALSE, r.err, r.exec, <<>>, <<>>, 0, NoOutput)
    /\ UNCHANGED <<env, phase, config, embedder, clock, nextId, calls, storedIds, fn, thinking, stream>>

\* A Count that reports how many entries were ever inserted.
CountEverInserted ==
    /\ phase = "open"
    /\ last' = Outcome("Count", NoArgs, FALSE, "nil", FALSE, <<>>, <<>>, nextId, NoOutput)
    /\ UNCHANGED <<env, phase, config, embedder, db, clock, nextId, deleted, calls, storedIds, fn, thinking, stream>>

\* Count: SELECT COUNT(*) FROM memories.
Count ==
    /\ phase = "open"
    /\ last' = Outcome("Count", NoArgs, FALSE, "nil", FALSE, <<>>, <<>>, Len(db), NoOutput)
    /\ UNCHANGED <<env, phase, config, embedder, db, clock, nextId, deleted, calls, storedIds, fn, thinking, stream>>

(***************************************************************************)
(* AutoCapture.                                                            *)
(***************************************************************************)
\* Bounds of ShouldCapture and of the emoji block it counts.
MinCaptureLen == 10
MaxCaptureLen == 500
MaxEmoji == 3
EmojiFirst == 127744
EmojiLast == 129535
PhoneDigits == 10

IsDigit(r) == r \in Range(DigitRunes)

\* \w: an ASCII letter, a digit or the underscore.
IsWord(r) == r \in Range(LowerLetters) \cup Range(UpperLetters) \cup Range(DigitRunes) \cup {"_"}

\* [\w.-]
IsWordDotDash(r) == IsWord(r) \/ r \in {".", "-"}

\* \s
IsSpace(r) == r \in {" ", "\n"}

\* \d, \w, [\w.-] and \s over every position of from..to
AllDigit(text, from, to) == \A k \in from..to : IsDigit(text[k])
AllWord(text, from, to) == \A k \in from..to : IsWord(text[k])
AllWordDotDash(text, from, to) == \A k \in from..to : IsWordDotDash(text[k])
AllSpace(text, from, to) == \A k \in from..to : IsSpace(text[k])

\* One of the literals occurs in the text, compared without case: (?i)a|b|c.
MatchAnyFold(text, lits) == \E lit \in lits : Contains(ToLower(text), lit)

\* \+\d{10,}
MatchPhone(text) ==
    \E i \in DOMAIN text :
        /\ text[i] = "+"
        /\ i + PhoneDigits <= Len(text)
        /\ AllDigit(text, i + 1, i + PhoneDigits)

\* @[\w.-]+\.\w+ with the @ at position a
AtDomain(text, a) ==
    /\ text[a] = "@"
    /\ \E d \in (a + 2)..(Len(text) - 1) :
        /\ text[d] = "."
        /\ AllWordDotDash(text, a + 1, d - 1)
        /\ IsWord(text[d + 1])

\* [\w.-]+@[\w.-]+\.\w+
MatchEmail(text) ==
    \E a \in DOMAIN text : a > 1 /\ IsWordDotDash(text[a - 1]) /\ AtDomain(text, a)

\* (?i)my\s+\w+\s+is|is\s+my, for the given spellings of "my" and "is"
MatchPossessive(text, my, is) ==
    LET t == ToLower(text)
        n == Len(t)
    IN \/ \E i \in 1..n :
            /\ OccursAt(t, my, i)
            /\ \E j \in (i + Len(my) + 1)..n :
                /\ AllSpace(t, i + Len(my), j - 1)
                /\ \E k \in (j + 1)..n :
                    /\ AllWord(t, j, k - 1)
                    /\ \E m \in (k + 1)..n :
                        /\ AllSpace(t, k, m - 1)
                        /\ OccursAt(t, is, m)
       \/ \E i \in 1..n :
            /\ OccursAt(t, is, i)
            /\ \E m \in (i + Len(is) + 1)..n :
                /\ AllSpace(t, i + Len(is), m - 1)
                /\ OccursAt(t, my, m)

MemoryMarker ==
    <<"<","r","e","l","e","v","a","n","t","-","m","e","m","o","r","i","e","s",">">>

LitImportant == <<"i","m","p","o","r","t","a","n","t">>
LitAlways == <<"a","l","w","a","y","s">>
LitNever == <<"n","e","v","e","r">>

RememberWords ==
    {<<"r","e","m","e","m","b","e","r">>, <<"z","a","p","a","m","a","t","u","j">>,
     <<"p","a","m","a","t","u","j">>}

PreferenceWords ==
    {<<"p","r","e","f","e","r">>, <<"r","a","d","U+0161","i">>, <<"l","i","k","e">>,
     <<"l","o","v","e">>, <<"h","a","t","e">>, <<"w","a","n","t">>}

DecisionWords ==
    {<<"d","e","c","i","d","e","d">>, <<"r","o","z","h","o","d","l","i">>,
     <<"w","i","l","l"," ","u","s","e">>, <<"b","u","d","e","m","e">>}

EntityWords ==
    {<<"i","s"," ","c","a","l","l","e","d">>, <<"j","m","e","n","u","j","e"," ","s","e">>}

FactWords ==
    {<<"i","s">>, <<"a","r","e">>, <<"h","a","s">>, <<"h","a","v","e">>, <<"j","e">>,
     <<"m","U+00E1">>, <<"j","s","o","u">>}

\* The emoji-heavy test counts the runes of U+1F300..U+1F9FF.
EmojiCount(text) ==
    Cardinality({i \in DOMAIN text :
                    CodePoint(text[i]) >= EmojiFirst /\ CodePoint(text[i]) <= EmojiLast})

\* The trigger patterns of ShouldCapture, in order.
MatchesTrigger(text) ==
    \/ MatchAnyFold(text, RememberWords)
    \/ MatchAnyFold(text, PreferenceWords \cup {<<"n","e","e","d">>})
    \/ MatchAnyFold(text, DecisionWords)
    \/ MatchPhone(text)
    \/ MatchEmail(text)
    \/ MatchPossessive(text, <<"m","U+016F","j">>, <<"j","e">>)
    \/ MatchPossessive(text, <<"m","y">>, <<"i","s">>)
    \/ MatchAnyFold(text, {LitAlways, LitNever, LitImportant})

\* A ShouldCapture without the marker rule.
ShouldCaptureSkipsMarker(text) ==
    IF ByteLen(text) < MinCaptureLen \/ ByteLen(text) > MaxCaptureLen THEN FALSE
    ELSE IF OccursAt(text, <<"<">>, 1) /\ Contains(text, <<"<","/">>) THEN FALSE
    ELSE IF EmojiCount(text) > MaxEmoji THEN FALSE
    ELSE MatchesTrigger(text)

\* A ShouldCapture without the wrapper rule.
ShouldCaptureSkipsWrapper(text) ==
    IF ByteLen(text) < MinCaptureLen \/ ByteLen(text) > MaxCaptureLen THEN FALSE
    ELSE IF Contains(text, MemoryMarker) THEN FALSE
    ELSE IF EmojiCount(text) > MaxEmoji THEN FALSE
    ELSE MatchesTrigger(text)

\* ShouldCapture
ShouldCapture(text) ==
    IF ByteLen(text) < MinCaptureLen \/ ByteLen(text) > MaxCaptureLen THEN FALSE
    ELSE IF Contains(text, MemoryMarker) THEN FALSE
    ELSE IF OccursAt(text, <<"<">>, 1) /\ Contains(text, <<"<","/">>) THEN FALSE
    ELSE IF EmojiCount(text) > MaxEmoji THEN FALSE
    ELSE MatchesTrigger(text)

\* A DetectCategory that tests the decision pattern before the preference one.
DetectCategoryDecisionFirst(text) ==
    LET lower == ToLower(text) IN
    IF MatchAnyFold(lower, DecisionWords) THEN "decision"
    ELSE IF MatchAnyFold(lower, PreferenceWords) THEN "preference"
    ELSE IF \/ MatchPhone(lower)
            \/ \E a \in DOMAIN lower : AtDomain(lower, a)
            \/ MatchAnyFold(lower, EntityWords) THEN "entity"
    ELSE IF MatchAnyFold(lower, FactWords) THEN "fact"
    ELSE "other"

\* DetectCategory: the first pattern that matches the lower-cased text.
DetectCategory(text) ==
    LET lower == ToLower(text) IN
    IF MatchAnyFold(lower, PreferenceWords) THEN "preference"
    ELSE IF MatchAnyFold(lower, DecisionWords) THEN "decision"
    ELSE IF \/ MatchPhone(lower)
            \/ \E a \in DOMAIN lower : AtDomain(lower, a)
            \/ MatchAnyFold(lower, EntityWords) THEN "entity"
    ELSE IF MatchAnyFold(lower, FactWords) THEN "fact"
    ELSE "other"

\* The importance Capture computes (in tenths): 0.5, then 0.8 on "important",
\* then 0.7 on always/never.
CaptureImportance(text) ==
    LET base == 5
        afterImportant == IF Contains(ToLower(text), LitImportant) THEN 8 ELSE base
    IN IF MatchAnyFold(text, {LitAlways, LitNever}) THEN 7 ELSE afterImportant

\* No direct call of ShouldCapture or DetectCategory has been made.
NoEval == [op |-> "none", text |-> <<>>, result |-> "none"]

\* Texts handed to Capture.
CaptureTexts == {TxtLikeTea, TxtImportant, TxtAlways, TxtBoth, TxtHello}

\* AutoCapture keeps no state: what it computes for each text.
AutoCaptureOf ==
    [text \in CaptureTexts |->
        [ShouldCapture |-> ShouldCapture(text),
         DetectCategory |-> DetectCategory(text),
         importance |-> CaptureImportance(text)]]

\* A Capture that stores every text, asking ShouldCapture nothing.
CaptureWithoutGate ==
    /\ phase = "open"
    /\ nextId < MaxStores
    /\ \E text \in CaptureTexts : \E emb \in Embed(embedder, text) :
        LET args == [text |-> text, sessionKey |-> "s1"]
            r == StoreResult(text, AutoCaptureOf[text].importance,
                             AutoCaptureOf[text].DetectCategory, "s1", emb)
        IN /\ Commit(r)
           /\ last' = Outcome("Capture", args, r.embedErr, r.err, r.exec, r.entry, <<>>, 0, NoOutput)
    /\ UNCHANGED <<env, phase, config, embedder, deleted, calls, fn, thinking, stream>>

\* Capture: nothing when ShouldCapture rejects, else Store with the detected
\* category and the computed importance.
Capture ==
    /\ phase = "open"
    /\ nextId < MaxStores
    /\ \E text \in CaptureTexts :
        LET args == [text |-> text, sessionKey |-> "s1"] IN
        IF ~AutoCaptureOf[text].ShouldCapture THEN
            /\ last' = Outcome("Capture", args, FALSE, "nil", FALSE, <<>>, <<>>, 0, NoOutput)
            /\ UNCHANGED <<db, clock, nextId, storedIds>>
        ELSE \E emb \in Embed(embedder, text) :
            LET r == StoreResult(text, AutoCaptureOf[text].importance,
                                 AutoCaptureOf[text].DetectCategory, "s1", emb)
            IN /\ Commit(r)
               /\ last' = Outcome("Capture", args, r.embedErr, r.err, r.exec, r.entry, <<>>, 0, NoOutput)
    /\ UNCHANGED <<env, phase, config, embedder, deleted, calls, fn, thinking, stream>>

(***************************************************************************)
(* Direct calls of the stateless functions of AutoCapture.                 *)
(***************************************************************************)
\* Lengths of the long runs below.
LongAsciiLen == 490
LongAccentLen == 250
EmojiRun == 4

\* n times the rune r.
Repeat(r, n) == [i \in 1..n |-> r]

TxtRadsiTea == <<"r","a","d","U+0161","i"," ","t","e","a">>
TxtDecided == <<"w","e"," ","d","e","c","i","d","e","d">>
TxtShoutLike == <<"I"," ","L","I","K","E"," ","T","E","A">>
TxtMail == <<"m","a","i","l"," ","b","o","b","@","x",".","i","o">>
TxtOpenTag == <<"<","b",">">>
TxtCloseTag == <<"<","/","b",">">>
TxtCalledBob == <<" ","i","s"," ","c","a","l","l","e","d"," ","b","o","b">>
TxtIsWhatIPrefer ==
    <<" ","i","s"," ","w","h","a","t"," ","i"," ","p","r","e","f","e","r">>

\* A text is a head, a body and a tail.
TextHeads ==
    {<<>>, TxtOpenTag, Repeat("a", LongAsciiLen), Repeat("U+00E1", LongAccentLen),
     Repeat("U+1F600", EmojiRun), Repeat("U+2600", EmojiRun), Repeat("U+1F600", EmojiRun - 1)}

TextBodies ==
    {TxtLikeTea, TxtRadsiTea, TxtDecided, TxtShoutLike, TxtMail, TxtHello, TxtAlways,
     MemoryMarker}

TextTails == {<<>>, TxtCloseTag, TxtCalledBob, TxtIsWhatIPrefer, MemoryMarker}

\* The texts ShouldCapture and DetectCategory are called with.
FnTexts == {h \o b \o t : h \in TextHeads, b \in TextBodies, t \in TextTails}

\* A Go bool as the result of a call.
BoolResult(b) == IF b THEN "true" ELSE "false"

\* A direct call ShouldCapture(text).
ShouldCaptureCall ==
    /\ fn.op = "input"
    /\ fn' = [op |-> "ShouldCapture", text |-> fn.text,
              result |-> BoolResult(ShouldCapture(fn.text))]
    /\ UNCHANGED <<env, phase, config, embedder, db, clock, nextId, deleted, last,
                   calls, storedIds, thinking, stream>>

\* A direct call DetectCategory(text).
DetectCategoryCall ==
    /\ fn.op = "input"
    /\ fn' = [op |-> "DetectCategory", text |-> fn.text, result |-> DetectCategory(fn.text)]
    /\ UNCHANGED <<env, phase, config, embedder, db, clock, nextId, deleted, last,
                   calls, storedIds, thinking, stream>>

(***************************************************************************)
(* Tool adapters.                                                          *)
(***************************************************************************)
\* The default limit of the recall tool.
RecallDefaultLimit == 5

\* params[key].(T): the value and whether the key is present.
Has(params, key) == key \in DOMAIN params

\* The listing of the recall tool: one line per result.
FormatResults(results) ==
    [i \in DOMAIN results |->
        [n |-> i, category |-> results[i].Entry.Category, score |-> results[i].Score,
         text |-> results[i].Entry.Text]]

\* The parameter maps the recall tool is executed with.
RecallCalls ==
    {[query |-> TxtLikeTea],
     [query |-> TxtLikeTea, limit |-> 1, category |-> "preference"],
     [limit |-> 1]}

\* MemoryTool.Execute
RecallExecute ==
    /\ phase = "open"
    /\ \E params \in RecallCalls :
        IF ~Has(params, "query") \/ params.query = TxtEmpty THEN
            last' = Outcome("recall", params, FALSE, "query parameter is required", FALSE,
                            <<>>, <<>>, 0, NoOutput)
        ELSE \E emb \in Embed(embedder, params.query) :
            LET limit == IF Has(params, "limit") THEN params.limit ELSE RecallDefaultLimit
                r == SearchResult(params.query, limit, Half, emb)
            IN IF r.err # "nil" THEN
                   last' = Outcome("recall", params, r.embedErr, "memory search failed", FALSE,
                                   <<>>, <<>>, 0, NoOutput)
               ELSE IF Len(r.results) = 0 THEN
                   last' = Outcome("recall", params, FALSE, "nil", FALSE, <<>>, r.results, 0,
                                   ToolOutput("No relevant memories found.", <<>>))
               ELSE last' = Outcome("recall", params, FALSE, "nil", FALSE, <<>>, r.results, 0,
                                    ToolOutput("Found relevant memories", FormatResults(r.results)))
    /\ UNCHANGED <<env, phase, config, embedder, db, clock, nextId, deleted, calls, storedIds, fn, thinking, stream>>

\* The parameter maps the capture tool is executed with.
CaptureCalls ==
    {[text |-> TxtAb],
     [text |-> TxtHello, category |-> "bogus-category", importance |-> 9],
     [text |-> TxtAb, importance |-> 15],
     [text |-> TxtEmpty, category |-> "fact"],
     [category |-> "fact"]}

\* A capture tool that asks ShouldCapture before it stores.
CaptureExecuteGated ==
    /\ phase = "open"
    /\ nextId < MaxStores
    /\ \E params \in CaptureCalls :
        IF ~Has(params, "text") \/ params.text = TxtEmpty THEN
            /\ last' = Outcome("capture", params, FALSE, "text parameter is required", FALSE,
                               <<>>, <<>>, 0, NoOutput)
            /\ UNCHANGED <<db, clock, nextId, storedIds>>
        ELSE IF ~ShouldCapture(params.text) THEN
            /\ last' = Outcome("capture", params, FALSE, "nil", FALSE, <<>>, <<>>, 0,
                               ToolOutput("Memory stored successfully", <<>>))
            /\ UNCHANGED <<db, clock, nextId, storedIds>>
        ELSE \E emb \in Embed(embedder, params.text) :
            LET category == IF Has(params, "category") THEN params.category ELSE "other"
                importance == IF Has(params, "importance") THEN params.importance ELSE 5
                r == StoreResult(params.text, importance, category, "", emb)
            IN /\ Commit(r)
               /\ last' = Outcome("capture", params, r.embedErr,
                                  IF r.err = "nil" THEN "nil" ELSE "failed to store memory",
                                  r.exec, r.entry, <<>>, 0,
                                  IF r.err = "nil"
                                  THEN ToolOutput("Memory stored successfully", <<r.entry[1].ID>>)
                                  ELSE NoOutput)
    /\ UNCHANGED <<env, phase, config, embedder, deleted, calls, fn, thinking, stream>>

\* MemoryCaptureTool.Execute
CaptureExecute ==
    /\ phase = "open"
    /\ nextId < MaxStores
    /\ \E params \in CaptureCalls :
        IF ~Has(params, "text") \/ params.text = TxtEmpty THEN
            /\ last' = Outcome("capture", params, FALSE, "text parameter is required", FALSE,
                               <<>>, <<>>, 0, NoOutput)
            /\ UNCHANGED <<db, clock, nextId, storedIds>>
        ELSE \E emb \in Embed(embedder, params.text) :
            LET category == IF Has(params, "category") THEN params.category ELSE "other"
                importance == IF Has(params, "importance") THEN params.importance ELSE 5
                r == StoreResult(params.text, importance, category, "", emb)
            IN /\ Commit(r)
               /\ last' = Outcome("capture", params, r.embedErr,
                                  IF r.err = "nil" THEN "nil" ELSE "failed to store memory",
                                  r.exec, r.entry, <<>>, 0,
                                  IF r.err = "nil"
                                  THEN ToolOutput("Memory stored successfully", <<r.entry[1].ID>>)
                                  ELSE NoOutput)
    /\ UNCHANGED <<env, phase, config, embedder, deleted, calls, fn, thinking, stream>>

(***************************************************************************)
(* Concurrent callers of one store.  A Store or a Delete is not one step:  *)
(* the caller first works on its own (embedding, building the entry,       *)
(* checking the id) and later issues its one SQL statement, which SQLite   *)
(* executes atomically.  Other callers run in between.                     *)
(***************************************************************************)
\* Goroutines that share the store.
Procs == {"p1", "p2"}

\* A caller outside any call, before its first one.
IdleCall == [pc |-> "idle", op |-> "none", entry |-> <<>>, id |-> <<>>, err |-> "nil"]

\* A caller back from a call, with what the call returned.
Returned(op, entry, id, err) == [pc |-> "idle", op |-> op, entry |-> entry, id |-> id, err |-> err]

\* An INSERT that overwrites the newest row instead of adding one.
InsertOverwritesLast(rows, entry) ==
    IF rows = <<>> THEN <<entry>> ELSE [rows EXCEPT ![Len(rows)] = entry]

\* INSERT INTO memories ... VALUES (...): one more row.
InsertInto(rows, entry) == Append(rows, entry)

\* Store up to the INSERT: Embed, the category check, uuid.New and time.Now.
StoreBegin(p) ==
    /\ phase = "open"
    /\ calls[p].pc = "idle"
    /\ nextId < MaxStores
    /\ \E c \in StoreCalls : \E emb \in Embed(embedder, c.text) :
        LET r == StoreResult(c.text, c.importance, c.category, c.sessionKey, emb) IN
        IF r.err # "nil" THEN
            /\ calls' = [calls EXCEPT ![p] = Returned("Store", <<>>, <<>>, r.err)]
            /\ UNCHANGED <<nextId, clock>>
        ELSE /\ calls' = [calls EXCEPT ![p] = [pc |-> "insert", op |-> "Store",
                                              entry |-> r.entry, id |-> <<>>, err |-> "nil"]]
             /\ nextId' = nextId + 1
             /\ clock' = clock + 1
    /\ UNCHANGED <<env, phase, config, embedder, db, deleted, last, storedIds, fn, thinking, stream>>

\* The INSERT of a Store and its return.
StoreInsert(p) ==
    /\ calls[p].pc = "insert"
    /\ db' = InsertInto(db, calls[p].entry[1])
    /\ storedIds' = storedIds \cup {calls[p].entry[1].ID}
    /\ calls' = [calls EXCEPT ![p] = Returned("Store", calls[p].entry, <<>>, "nil")]
    /\ UNCHANGED <<env, phase, config, embedder, clock, nextId, deleted, last, fn, thinking, stream>>

\* Delete up to the DELETE: the format check of the id.
DeleteBegin(p) ==
    /\ phase = "open"
    /\ calls[p].pc = "idle"
    /\ \E id \in DeleteIds :
        IF ~uuidRegexMatch(ToLowerId(id)) THEN
            calls' = [calls EXCEPT ![p] = Returned("Delete", <<>>, <<id>>, "invalid memory ID format")]
        ELSE calls' = [calls EXCEPT ![p] = [pc |-> "delete", op |-> "Delete",
                                            entry |-> <<>>, id |-> <<id>>, err |-> "nil"]]
    /\ UNCHANGED <<env, phase, config, embedder, db, clock, nextId, deleted, last, storedIds, fn, thinking, stream>>

\* The DELETE of a Delete, the rows-affected test and its return.
DeleteExec(p) ==
    /\ calls[p].pc = "delete"
    /\ LET id == calls[p].id[1]
           r == DeleteResult(id)
       IN /\ db' = r.db
          /\ deleted' = IF r.err = "nil" THEN deleted \cup {id} ELSE deleted
          /\ calls' = [calls EXCEPT ![p] = Returned("Delete", <<>>, <<id>>, r.err)]
    /\ UNCHANGED <<env, phase, config, embedder, clock, nextId, last, storedIds, fn, thinking, stream>>

(***************************************************************************)
(* The memory-enhanced agent.  ProcessMessage runs for as long as the inner *)
(* agent takes, so a turn is several steps: the search, the augmentation   *)
(* and the inner agent's call, then the two auto-captures and the return.  *)
(***************************************************************************)
\* The categories as fmt.Sprintf writes them.
CategoryText ==
    [preference |-> <<"p","r","e","f","e","r","e","n","c","e">>,
     decision |-> <<"d","e","c","i","s","i","o","n">>,
     entity |-> <<"e","n","t","i","t","y">>,
     fact |-> <<"f","a","c","t">>,
     other |-> <<"o","t","h","e","r">>]

RECURSIVE JoinLines(_)
\* strings.Builder: the pieces written, one after the other.
JoinLines(pieces) ==
    IF pieces = <<>> THEN <<>> ELSE Head(pieces) \o JoinLines(Tail(pieces))

\* enhanceWithMemories: the content as it is when there is no memory, else the
\* marked block of numbered "[category] text" lines and then the content.
enhanceWithMemories(content, memories) ==
    IF Len(memories) = 0 THEN content
    ELSE LET open == MemoryMarker \o <<"\n">>
             intro ==
                 <<"T","h","e"," ","f","o","l","l","o","w","i","n","g"," ","i","n","f",
                   "o","r","m","a","t","i","o","n"," ","f","r","o",
                   "m"," ","p","r","e","v","i","o","u","s"," ","c",
                   "o","n","v","e","r","s","a","t","i","o","n","s",
                   " ","m","a","y"," ","b","e"," ","r","e","l","e",
                   "v","a","n","t",":","\n","\n">>
             line(i) == <<DigitRunes[i + 1], ".", " ", "[">>
                            \o CategoryText[memories[i].Entry.Category]
                            \o <<"]", " ">> \o memories[i].Entry.Text \o <<"\n">>
             close ==
                 <<"<","/","r","e","l","e","v","a","n","t","-","m","e","m","o","r","i",
                   "e","s",">","\n","\n">>
         IN open \o intro \o JoinLines([i \in DOMAIN memories |-> line(i)]) \o close \o content

\* The text MemoryContextEnhancer.Enhance builds from the memories it found.
EnhanceText(content, memories) ==
    LET title ==
            <<"#","#"," ","R","e","l","e","v","a","n","t"," ","C","o","n","t","e",
              "x","t"," ","f","r","o","m"," ","M","e","m","o","r","y",
              "\n","\n">>
        line(i) == <<"-", " ", "[">> \o CategoryText[memories[i].Entry.Category]
                       \o <<"]", " ">> \o memories[i].Entry.Text \o <<"\n">>
        rule == <<"\n","-","-","-","\n","\n">>
    IN title \o JoinLines([i \in DOMAIN memories |-> line(i)]) \o rule \o content

\* The score 0.6 both callers search with.
SixTenths == [d |-> 3, p |-> 25]

\* The messages of the users.
AgentContents == {TxtLikeTea, TxtHello}

\* What the inner agent returns for a prompt: (response, err).
InnerAgentReplies ==
    {[response |-> TxtAlways, err |-> "nil"],
     [response |-> TxtHello, err |-> "nil"],
     [response |-> TxtEmpty, err |-> "LLM call failed"]}

\* A return that hands a failed auto-capture to the caller.
ProcessReturnFailsOnCaptureError(response, captureErrs) ==
    IF captureErrs # {} THEN [response |-> TxtEmpty, err |-> "failed to auto-capture memory"]
    ELSE [response |-> response, err |-> "nil"]

\* return response, nil: the errors of the captures were only logged.
ProcessReturn(response, captureErrs) == [response |-> response, err |-> "nil"]

\* ProcessMessage, steps 1 to 3: Search(content, 3, 0.6) whose error is only
\* logged, enhanceWithMemories, and the inner agent on the enhanced content;
\* the inner agent's error is returned.
ProcessMessageBegin(p) ==
    /\ phase = "open"
    /\ calls[p].pc = "idle"
    /\ \E content \in AgentContents : \E emb \in Embed(embedder, content) :
       \E inner \in InnerAgentReplies :
        LET r == SearchResult(content, 3, SixTenths, emb)
            turn == [pc |-> IF inner.err # "nil" THEN "idle" ELSE "captureContent",
                     op |-> "ProcessMessage",
                     content |-> content,
                     searchErr |-> r.err # "nil",
                     memories |-> r.results,
                     prompt |-> enhanceWithMemories(content, r.results),
                     inner |-> inner,
                     captureErrs |-> {},
                     ret |-> IF inner.err # "nil" THEN [response |-> TxtEmpty, err |-> inner.err]
                             ELSE [response |-> TxtEmpty, err |-> "pending"]]
        IN calls' = [calls EXCEPT ![p] = turn]
    /\ UNCHANGED <<env, phase, config, embedder, db, clock, nextId, deleted, last, storedIds, fn, thinking, stream>>

\* ProcessMessage, steps 4 and 5: the auto-capture of the content, then the one
\* of the response; after the second the response is returned.
ProcessMessageCapture(p) ==
    /\ calls[p].op = "ProcessMessage"
    /\ calls[p].pc \in {"captureContent", "captureResponse"}
    /\ nextId < MaxStores
    /\ LET c == calls[p]
           text == IF c.pc = "captureContent" THEN c.content ELSE c.inner.response
           after(errs) ==
               IF c.pc = "captureContent"
               THEN [c EXCEPT !.pc = "captureResponse", !.captureErrs = errs]
               ELSE [c EXCEPT !.pc = "idle", !.captureErrs = errs,
                              !.ret = ProcessReturn(c.inner.response, errs)]
       IN IF ~AutoCaptureOf[text].ShouldCapture THEN
              /\ calls' = [calls EXCEPT ![p] = after(c.captureErrs)]
              /\ UNCHANGED <<db, clock, nextId, storedIds>>
          ELSE \E emb \in Embed(embedder, text) :
              LET r == StoreResult(text, AutoCaptureOf[text].importance,
                                   AutoCaptureOf[text].DetectCategory, "s1", emb)
              IN /\ Commit(r)
                 /\ calls' = [calls EXCEPT ![p] =
                        after(IF r.err # "nil" THEN c.captureErrs \cup {c.pc} ELSE c.captureErrs)]
    /\ UNCHANGED <<env, phase, config, embedder, deleted, last, fn, thinking, stream>>

\* MemoryContextEnhancer.Enhance: the content itself when the search fails or
\* finds nothing (fn.result is fn.text exactly then: every built text is longer).
Enhance ==
    /\ phase = "open"
    /\ \E content \in AgentContents : \E emb \in Embed(embedder, content) :
        LET r == SearchResult(content, 3, SixTenths, emb)
            enhanced == IF r.err # "nil" \/ Len(r.results) = 0 THEN content
                        ELSE EnhanceText(content, r.results)
        IN fn' = [op |-> "Enhance", text |-> content, result |-> enhanced]
    /\ UNCHANGED <<env, phase, config, embedder, db, clock, nextId, deleted, last, calls,
                   storedIds, thinking, stream>>

(***************************************************************************)
(* The typing indicator of the Telegram channel.  handleMessage runs in    *)
(* the goroutine of its update, Send in the goroutine of the outbound      *)
(* dispatcher, and each startThinking leaves a goroutine behind that       *)
(* refreshes the indicator at every tick of its ticker.                    *)
(***************************************************************************)
\* startThinking calls in one run.
MaxThinks == 3

\* The chats messages come from.
Chats == {"chat1", "chat2"}

\* The channel after NewTelegramChannel: stopThinking holds, for a chat, the
\* thinkingCancel the k-th startThinking stored (0: no entry); cancelled are the
\* thinkingCancels whose Cancel has been called; loops are the refresh
\* goroutines in the order they were started; refreshers are, for a chat, the
\* goroutines that sent a typing action at a tick since the chat's latest
\* startThinking; ctxDone tells whether ctx.Done() is closed.
NoThinking ==
    [stopThinking |-> [c \in Chats |-> 0],
     cancelled |-> {},
     loops |-> <<>>,
     refreshers |-> [c \in Chats |-> {}],
     ctxDone |-> FALSE]

\* startThinking: Cancel on the entry found, a new context.WithTimeout whose
\* context is dropped and whose cancel function is stored, one typing action,
\* and the goroutine that refreshes it.
startThinking(t, chat) ==
    LET prev == t.stopThinking[chat]
        id == Len(t.loops) + 1
    IN [stopThinking |-> [t.stopThinking EXCEPT ![chat] = id],
        cancelled |-> IF prev # 0 THEN t.cancelled \cup {prev} ELSE t.cancelled,
        loops |-> Append(t.loops, [chat |-> chat, state |-> "running"]),
        refreshers |-> [t.refreshers EXCEPT ![chat] = {}],
        ctxDone |-> t.ctxDone]

\* handleMessage of an allowed sender: startThinking, then the message goes
\* to the bus.
handleMessage(chat) ==
    /\ Len(thinking.loops) < MaxThinks
    /\ thinking' = startThinking(thinking, chat)
    /\ UNCHANGED <<memoryVars, stream>>

\* Send, up to the delivery of the content: Cancel on the entry found and
\* its removal from stopThinking.
Send(chat) ==
    /\ thinking.loops # <<>>
    /\ LET stop == thinking.stopThinking[chat] IN
       thinking' = [thinking EXCEPT
                       !.cancelled = IF stop # 0 THEN @ \cup {stop} ELSE @,
                       !.stopThinking[chat] = 0]
    /\ UNCHANGED <<memoryVars, stream>>

\* case <-ticker.C: a typing action while stopThinking holds an entry for the
\* chat, whichever; the goroutine returns when it holds none.
LoopTick(l) ==
    /\ l \in DOMAIN thinking.loops
    /\ thinking.loops[l].state = "running"
    /\ LET chat == thinking.loops[l].chat IN
       IF thinking.stopThinking[chat] # 0
       THEN thinking' = [thinking EXCEPT !.refreshers[chat] = @ \cup {l}]
       ELSE thinking' = [thinking EXCEPT !.loops[l].state = "returned"]
    /\ UNCHANGED <<memoryVars, stream>>

\* case <-ctx.Done(): the goroutine returns.  ctx is the context handleMessage
\* was given, not the one startThinking derived.
LoopCtxDone(l) ==
    /\ l \in DOMAIN thinking.loops
    /\ thinking.loops[l].state = "running"
    /\ thinking.ctxDone
    /\ thinking' = [thinking EXCEPT !.loops[l].state = "returned"]
    /\ UNCHANGED <<memoryVars, stream>>

\* The context of the bot's handlers is cancelled.
ContextDone ==
    /\ thinking.loops # <<>>
    /\ ~thinking.ctxDone
    /\ thinking' = [thinking EXCEPT !.ctxDone = TRUE]
    /\ UNCHANGED <<memoryVars, stream>>

(***************************************************************************)
(* The streaming sender of the Telegram channel.  A content is the         *)
(* sequence of its paragraphs (the parts between blank lines), a paragraph *)
(* the sequence of the byte lengths of its lines; a chunk is its byte      *)
(* length.  The bot is told, for a call, which chunks it refuses.          *)
(***************************************************************************)
DefaultChunkSize == 3500
DefaultMaxChunks == 50
DefaultParallelWorkers == 4
SequentialChunks == 3
TruncationNoticeLen == 35

DefaultStreamingConfig ==
    [Enabled |-> TRUE, ChunkSize |-> DefaultChunkSize,
     MaxChunks |-> DefaultMaxChunks, ParallelWorkers |-> DefaultParallelWorkers]

\* The configurations a StreamingSender is made with: the one of
\* NewTelegramChannel, and others NewStreamingSender accepts.
StreamingConfigs ==
    {DefaultStreamingConfig,
     [DefaultStreamingConfig EXCEPT !.MaxChunks = 4, !.ParallelWorkers = 2],
     [DefaultStreamingConfig EXCEPT !.ParallelWorkers = 1],
     [DefaultStreamingConfig EXCEPT !.Enabled = FALSE]}

\* The contents sent: a short one, paragraphs that fill a chunk each, a
\* paragraph longer than a chunk, paragraphs that share chunks.
StreamContents ==
    {<< <<120>> >>,
     << <<3000>>, <<3000>> >>,
     << <<1000, 1000, 1000, 1000, 1000>> >>,
     << <<3000>>, <<3000>>, <<3000>>, <<3000>> >>,
     << <<2000>>, <<1000>>, <<3000>>, <<3400>>, <<200>>, <<3000>> >>,
     << <<3000>>, <<3000>>, <<3000>>, <<3000>>, <<3000>> >>}

\* The chunks, by number, the bot answers with an error.
FailingChunks == {{}, {2}}

RECURSIVE SumLen(_, _)
\* len of the parts joined by a separator of sep bytes.
SumLen(parts, sep) ==
    IF parts = <<>> THEN 0
    ELSE IF Len(parts) = 1 THEN Head(parts)
    ELSE Head(parts) + sep + SumLen(Tail(parts), sep)

ParagraphLen(paragraph) == SumLen(paragraph, 1)

ContentLen(content) ==
    SumLen([i \in DOMAIN content |-> ParagraphLen(content[i])], 2)

\* chunks = append(chunks, currentChunk.String()); currentChunk.Reset(),
\* under if currentChunk.Len() > 0.
FlushChunk(st) ==
    IF st.cur > 0 THEN [chunks |-> Append(st.chunks, st.cur), cur |-> 0] ELSE st

RECURSIVE SplitLines(_, _, _)
\* The loop of splitIntoChunks over the lines of a long paragraph.
SplitLines(lines, st, chunkSize) ==
    IF lines = <<>> THEN st
    ELSE LET line == Head(lines)
             s1 == IF st.cur + line + 1 > chunkSize THEN FlushChunk(st) ELSE st
             s2 == IF s1.cur > 0 THEN [s1 EXCEPT !.cur = @ + 1] ELSE s1
         IN SplitLines(Tail(lines), [s2 EXCEPT !.cur = @ + line], chunkSize)

RECURSIVE SplitParagraphs(_, _, _)
\* The loop of splitIntoChunks over the paragraphs.
SplitParagraphs(paragraphs, st, chunkSize) ==
    IF paragraphs = <<>> THEN st
    ELSE LET paragraph == Head(paragraphs)
             len == ParagraphLen(paragraph)
         IN IF len > chunkSize
            THEN SplitParagraphs(Tail(paragraphs),
                     SplitLines(paragraph, FlushChunk(st), chunkSize), chunkSize)
            ELSE LET s1 == IF st.cur + len + 2 > chunkSize
                           THEN FlushChunk(st) ELSE st
                     s2 == IF s1.cur > 0 THEN [s1 EXCEPT !.cur = @ + 2] ELSE s1
                 IN SplitParagraphs(Tail(paragraphs),
                        [s2 EXCEPT !.cur = @ + len], chunkSize)

splitIntoChunks(cfg, content) ==
    FlushChunk(SplitParagraphs(content, [chunks |-> <<>>, cur |-> 0],
                               cfg.ChunkSize)).chunks

\* chunks[:MaxChunks] with the notice added to the last one, when there are
\* more than MaxChunks.
TruncateChunks(cfg, chunks) ==
    IF Len(chunks) > cfg.MaxChunks
    THEN [i \in 1..cfg.MaxChunks |->
             IF i = cfg.MaxChunks THEN chunks[i] + TruncationNoticeLen
             ELSE chunks[i]]
    ELSE chunks

\* The SendMessage call of sendChunk: the chunk under its progress line
\* when the message has more than one chunk.
sendChunk(chunk, current, total) ==
    [current |-> current, total |-> total,
     len |-> IF total > 1 THEN chunk + 6 ELSE chunk]

\* The SendMessage call of sendSimple: the content as it is.
sendSimple(content) ==
    [current |-> 1, total |-> 1, len |-> ContentLen(content)]

RECURSIVE SendInOrder(_, _, _)
\* The loop of SendLargeMessage from chunk i on: the calls made, and the
\* error of the first chunk refused, after which no chunk is sent.
SendInOrder(chunks, i, failing) ==
    IF i > Len(chunks) THEN [sent |-> <<>>, ret |-> [err |-> "nil", chunk |-> 0]]
    ELSE LET call == sendChunk(chunks[i], i, Len(chunks)) IN
         IF i \in failing
         THEN [sent |-> <<call>>,
               ret |-> [err |-> "failed to send chunk", chunk |-> i]]
         ELSE LET rest == SendInOrder(chunks, i + 1, failing)
              IN [sent |-> <<call>> \o rest.sent, ret |-> rest.ret]

\* SendLargeMessage: the content as it is, or its chunks one after the
\* other.
SendLargeMessage(cfg, content, failing) ==
    IF ~cfg.Enabled \/ ContentLen(content) <= cfg.ChunkSize
    THEN [sent |-> <<sendSimple(content)>>,
          ret |-> IF 1 \in failing
                  THEN [err |-> "send", chunk |-> 1]
                  ELSE [err |-> "nil", chunk |-> 0]]
    ELSE SendInOrder(TruncateChunks(cfg, splitIntoChunks(cfg, content)),
                     1, failing)

\* The sender between two calls: pc is where SendLargeMessageParallel
\* stands, chunkChan the numbers of the chunks still in the channel, workers
\* the state of each worker goroutine and the chunk it took, sent the
\* SendMessage calls in the order they were issued, resultChan the results
\* in the order they were written, ret what the call returned.
NoStream ==
    [pc |-> "idle",
     config |-> DefaultStreamingConfig,
     chunks |-> <<>>,
     failing |-> {},
     chunkChan |-> <<>>,
     workers |-> <<>>,
     sent |-> <<>>,
     resultChan |-> <<>>,
     ret |-> [err |-> "nil", chunk |-> 0]]

\* SendLargeMessageParallel up to the start of the workers: it returns
\* before when the content goes out as it is or in at most three chunks.
SendLargeMessageParallel ==
    /\ stream.pc \in {"idle", "returned"}
    /\ \E cfg \in StreamingConfigs, content \in StreamContents,
          failing \in FailingChunks :
         LET chunks == TruncateChunks(cfg, splitIntoChunks(cfg, content))
             direct == SendLargeMessage(cfg, content, failing)
             simple == ~cfg.Enabled \/ ContentLen(content) <= cfg.ChunkSize
         IN IF simple \/ Len(chunks) <= SequentialChunks
            THEN stream' = [NoStream EXCEPT !.pc = "returned",
                               !.config = cfg,
                               !.chunks = IF simple THEN <<>> ELSE chunks,
                               !.failing = failing,
                               !.sent = direct.sent,
                               !.ret = direct.ret]
            ELSE stream' = [NoStream EXCEPT !.pc = "workers",
                               !.config = cfg,
                               !.chunks = chunks,
                               !.failing = failing,
                               !.chunkChan = [i \in 1..Len(chunks) |-> i],
                               !.workers = [w \in 1..cfg.ParallelWorkers |->
                                               [state |-> "ready", chunk |-> 0]]]
    /\ UNCHANGED <<memoryVars, thinking>>

\* for chunk := range chunkChan, with a chunk in the channel.
WorkerReceive(w) ==
    /\ stream.pc = "workers"
    /\ w \in DOMAIN stream.workers
    /\ stream.workers[w].state = "ready"
    /\ stream.chunkChan # <<>>
    /\ stream' = [stream EXCEPT
                     !.workers[w] = [state |-> "sending",
                                     chunk |-> Head(stream.chunkChan)],
                     !.chunkChan = Tail(@)]
    /\ UNCHANGED <<memoryVars, thinking>>

\* sendChunk of the chunk taken, and its result on resultChan.
WorkerSend(w) ==
    /\ stream.pc = "workers"
    /\ w \in DOMAIN stream.workers
    /\ stream.workers[w].state = "sending"
    /\ LET i == stream.workers[w].chunk IN
       stream' = [stream EXCEPT
                     !.workers[w] = [state |-> "ready", chunk |-> 0],
                     !.sent = Append(@, sendChunk(stream.chunks[i], i,
                                                  Len(stream.chunks))),
                     !.resultChan = Append(@,
                         [index |-> i,
                          err |-> IF i \in stream.failing THEN "send" ELSE "nil"])]
    /\ UNCHANGED <<memoryVars, thinking>>

\* for chunk := range chunkChan, with the channel closed and empty: the
\* worker is done.
WorkerExit(w) ==
    /\ stream.pc = "workers"
    /\ w \in DOMAIN stream.workers
    /\ stream.workers[w].state = "ready"
    /\ stream.chunkChan = <<>>
    /\ stream' = [stream EXCEPT !.workers[w].state = "done"]
    /\ UNCHANGED <<memoryVars, thinking>>

\* The first result with an error, in the order of resultChan.
FirstError(results) ==
    LET failed == SelectSeq(results, LAMBDA r : r.err # "nil")
    IN IF failed = <<>> THEN [err |-> "nil", chunk |-> 0]
       ELSE [err |-> "send", chunk |-> Head(failed).index]

\* wg.Wait() is over, resultChan closed and read to its end:
\* SendLargeMessageParallel returns firstError.
CollectResults ==
    /\ stream.pc = "workers"
    /\ \A w \in DOMAIN stream.workers : stream.workers[w].state = "done"
    /\ stream' = [stream EXCEPT !.pc = "returned",
                                !.ret = FirstError(stream.resultChan)]
    /\ UNCHANGED <<memoryVars, thinking>>

(***************************************************************************)
(* Construction.                                                           *)
(***************************************************************************)
\* NewMemoryStore: open the database, create the schema, initialize the embedder.
\* last.err is the cause of the returned error, without the caller's prefix.
NewMemoryStore(op, args, cfg) ==
    LET r == initEmbedder(cfg) IN
    /\ phase' = IF r.err = "nil" THEN "open" ELSE "failed"
    /\ config' = cfg
    /\ embedder' = r.embedder
    /\ last' = Outcome(op, args, FALSE, r.err, FALSE, <<>>, <<>>, 0, NoOutput)
    /\ UNCHANGED <<env, db, clock, nextId, deleted, calls, storedIds, fn, thinking, stream>>

\* Configurations callers construct a store with.
CallerConfigs ==
    {[DefaultConfig EXCEPT !.EmbeddingProvider = "local"],
     [DefaultConfig EXCEPT !.EmbeddingProvider = "local", !.LocalModelPath = OptLargeModel,
                           !.MaxResults = 2],
     [DefaultConfig EXCEPT !.EmbeddingProvider = "simple"]}

NewMemoryStoreCall ==
    /\ phase = "new"
    /\ \E cfg \in CallerConfigs : NewMemoryStore("NewMemoryStore", cfg, cfg)

\* SetupMemoryIntegration: DefaultConfig, with the key when one is given.
SetupMemoryIntegration ==
    /\ phase = "new"
    /\ \E apiKey \in {"", "sk-arg"} :
        LET cfg == IF apiKey # "" THEN
                       [DefaultConfig EXCEPT !.EmbeddingProvider = "openai",
                                             !.OpenAIAPIKey = apiKey,
                                             !.EmbeddingModel = "text-embedding-3-small"]
                   ELSE DefaultConfig
        IN NewMemoryStore("SetupMemoryIntegration", [apiKey |-> apiKey], cfg)

(***************************************************************************)
(* The system.                                                             *)
(***************************************************************************)
\* The process environment: OPENAI_API_KEY and the files that exist.
Environments ==
    {[OPENAI_API_KEY |-> "", files |-> {}],
     [OPENAI_API_KEY |-> "sk-env", files |-> {HomeModel, OptLargeModel, OptScript}]}

Init ==
    /\ env \in Environments
    /\ phase = "new"
    /\ config = DefaultConfig
    /\ embedder = NoEmbedder
    /\ db = <<>>
    /\ clock = 0
    /\ nextId = 0
    /\ deleted = {}
    /\ last = Outcome("none", NoArgs, FALSE, "nil", FALSE, <<>>, <<>>, 0, NoOutput)
    /\ calls = [p \in Procs |-> IdleCall]
    /\ storedIds = {}
    /\ fn = NoEval
    /\ thinking = NoThinking
    /\ stream = NoStream

Next ==
    \/ NewMemoryStoreCall
    \/ SetupMemoryIntegration
    \/ Store
    \/ Search
    \/ Delete
    \/ Count
    \/ Capture
    \/ RecallExecute
    \/ CaptureExecute

Spec == Init /\ [][Next]_vars

\* Two goroutines calling Store and Delete on one store.
NextConc ==
    \/ NewMemoryStoreCall
    \/ \E p \in Procs : StoreBegin(p)
    \/ \E p \in Procs : StoreInsert(p)
    \/ \E p \in Procs : DeleteBegin(p)
    \/ \E p \in Procs : DeleteExec(p)

SpecConc == Init /\ [][NextConc]_vars

\* AutoCapture's functions need no store: a caller holds a text and calls one.
InitFn ==
    /\ env = [OPENAI_API_KEY |-> "", files |-> {}]
    /\ phase = "new"
    /\ config = DefaultConfig
    /\ embedder = NoEmbedder
    /\ db = <<>>
    /\ clock = 0
    /\ nextId = 0
    /\ deleted = {}
    /\ last = Outcome("none", NoArgs, FALSE, "nil", FALSE, <<>>, <<>>, 0, NoOutput)
    /\ calls = [p \in Procs |-> IdleCall]
    /\ storedIds = {}
    /\ fn \in {[op |-> "input", text |-> t, result |-> "none"] : t \in FnTexts}
    /\ thinking = NoThinking
    /\ stream = NoStream

NextFn ==
    \/ ShouldCaptureCall
    \/ DetectCategoryCall

SpecFn == InitFn /\ [][NextFn]_vars

\* The turns of one conversation handled by a memory-enhanced agent, one
\* after the other, and the context enhancer on the same store.
NextAgent ==
    \/ SetupMemoryIntegration
    \/ ProcessMessageBegin("p1")
    \/ ProcessMessageCapture("p1")
    \/ Enhance

SpecAgent == Init /\ [][NextAgent]_vars

\* The goroutines around the typing indicator of one running channel.
NextTyping ==
    \/ \E chat \in Chats : handleMessage(chat)
    \/ \E chat \in Chats : Send(chat)
    \/ \E l \in 1..MaxThinks : LoopTick(l)
    \/ \E l \in 1..MaxThinks : LoopCtxDone(l)
    \/ ContextDone

SpecTyping == Init /\ [][NextTyping]_vars

\* One StreamingSender and the worker goroutines of its calls.
NextStream ==
    \/ SendLargeMessageParallel
    \/ \E w \in 1..DefaultParallelWorkers : WorkerReceive(w)
    \/ \E w \in 1..DefaultParallelWorkers : WorkerSend(w)
    \/ \E w \in 1..DefaultParallelWorkers : WorkerExit(w)
    \/ CollectResults

SpecStream == Init /\ [][NextStream]_vars

\* A row left in the database file by an earlier run: the k-th newest of them.
PersistedRow(k, text, category) ==
    [ID |-> [n |-> 0 - k, form |-> "canonical"], Text |-> text,
     Vector |-> FallbackVectors[MiniLMDims][text], Importance |-> 5,
     Category |-> category, SessionKey |-> "s0", CreatedAt |-> 0 - k]

\* NewMemoryStore opens the database file that is there (CREATE TABLE IF NOT
\* EXISTS): a store opened on the rows of earlier runs, the two oldest about tea
\* and coffee, then one short of WindowCap unrelated ones.
InitWindow ==
    /\ env = [OPENAI_API_KEY |-> "", files |-> {HomeModel}]
    /\ phase = "open"
    /\ config = [DefaultConfig EXCEPT !.EmbeddingProvider = "local"]
    /\ embedder = initEmbedder(config).embedder
    /\ LET fill == WindowCap - 1 IN
        db = [k \in 1..(fill + 2) |->
                 IF k = 1 THEN PersistedRow(fill + 2, TxtLikeTea, "preference")
                 ELSE IF k = 2 THEN PersistedRow(fill + 1, TxtLikeCoffee, "preference")
                 ELSE PersistedRow(fill + 3 - k, TxtHello, "other")]
    /\ clock = 0
    /\ nextId = 0
    /\ deleted = {}
    /\ last = Outcome("none", NoArgs, FALSE, "nil", FALSE, <<>>, <<>>, 0, NoOutput)
    /\ calls = [p \in Procs |-> IdleCall]
    /\ storedIds = {}
    /\ fn = NoEval
    /\ thinking = NoThinking
    /\ stream = NoStream

NextWindow ==
    \/ Store
    \/ Search

SpecWindow == InitWindow /\ [][NextWindow]_vars

(***************************************************************************)
(* Properties.                                                             *)
(***************************************************************************)
ScoreEq(s, t) == ~ScoreLt(s, t) /\ ~ScoreLt(t, s)

ValidCategories == Range(MemoryCategories)

\* The vector Embed returns for a text when it does not fail.
EmbeddingOf(text) == (CHOOSE e \in Embed(embedder, text) : ~e.err).vec

\* C1: the list Search returns is ordered by score descending, and two
\* returned entries of equal score appear in window order: the one created
\* later comes first.
C1_SearchRankedStable ==
    (last.op = "Search" /\ last.err = "nil") =>
        \A i, j \in DOMAIN last.results :
            i < j =>
                /\ ScoreLeq(last.results[j].Score, last.results[i].Score)
                /\ ScoreEq(last.results[i].Score, last.results[j].Score)
                    => last.results[i].Entry.CreatedAt > last.results[j].Entry.CreatedAt

\* C2: once Delete(id) has succeeded, no Search (direct or through the
\* recall tool) returns an entry with that id, no row carries it, and Count
\* is the number of ids issued and not deleted.
C2_DeletedNeverObserved ==
    /\ \A i \in DOMAIN db : db[i].ID \notin deleted
    /\ last.op \in {"Search", "recall"} =>
        \A i \in DOMAIN last.results : last.results[i].Entry.ID \notin deleted
    /\ last.op = "Count" => last.count = nextId - Cardinality(deleted)

C2_SearchAfterDelete ==
    /\ deleted # {}
    /\ last.op = "Search"
    /\ Len(last.results) > 0

\* C3: a call whose embedding fails is aborted as a whole: it returns an
\* error, no entry and no result list, issues no write and leaves the table
\* as it was.
C3_EmbedFailureAborts ==
    [][last'.embedErr =>
          /\ db' = db
          /\ last'.err # "nil"
          /\ ~last'.exec
          /\ last'.entry = <<>>
          /\ last'.results = <<>>]_vars

C3_StoreEmbedFailed ==
    /\ last.op = "Store"
    /\ last.embedErr
    /\ Len(db) > 0

\* C4: Delete of an id that is no UUID returns the validation error without
\* issuing a statement, Delete of a well-formed id that no row carries returns
\* the not-found error, and the table is unchanged in both cases.
C4_DeleteRejects ==
    [][last'.op = "Delete" =>
          LET id == last'.args.id IN
          /\ id.form = "malformed" =>
                /\ last'.err = "invalid memory ID format"
                /\ ~last'.exec
                /\ db' = db
          /\ (id.form # "malformed" /\ \A i \in DOMAIN db : db[i].ID # ToLowerId(id)) =>
                /\ last'.err = "memory not found"
                /\ db' = db]_vars

C4_MalformedDeleteOnPopulatedStore ==
    /\ last.op = "Delete"
    /\ last.args.id.form = "malformed"
    /\ Len(db) > 0

\* C5: every result of Search reaches the effective minScore, the list has
\* at most the effective limit entries, and it is the head of the ranking of
\* the qualifying candidates: it holds min(limit, number qualifying) distinct
\* rows, each with its own score, and no candidate left out scores higher
\* than one returned.
C5_ThresholdAndLimit ==
    (last.op = "Search" /\ last.err = "nil") =>
        LET limit == IF last.args.limit <= 0 THEN config.MaxResults ELSE last.args.limit
            minScore == IF last.args.minScore.d <= 0 THEN config.MinScore
                        ELSE last.args.minScore
            qv == EmbeddingOf(last.args.query)
            scoreOf(row) == cosineSimilarity(qv, row.Vector)
            qualifying == {i \in DOMAIN db : ScoreLeq(minScore, scoreOf(db[i]))}
            res == last.results
            returned == {i \in DOMAIN db : \E k \in DOMAIN res : res[k].Entry = db[i]}
        IN /\ \A k \in DOMAIN res : ScoreLeq(minScore, res[k].Score)
           /\ Len(res) <= limit
           /\ Len(res) = IF Cardinality(qualifying) < limit THEN Cardinality(qualifying)
                         ELSE limit
           /\ returned \subseteq qualifying
           /\ Cardinality(returned) = Len(res)
           /\ \A k \in DOMAIN res : res[k].Score = scoreOf(res[k].Entry)
           /\ \A i \in qualifying \ returned :
                \A k \in DOMAIN res : ScoreLeq(scoreOf(db[i]), res[k].Score)

C5_TruncatedAndFiltered ==
    /\ last.op = "Search"
    /\ last.err = "nil"
    /\ Len(last.results) = last.args.limit
    /\ \E i \in DOMAIN db :
        /\ ScoreLeq(last.args.minScore, cosineSimilarity(EmbeddingOf(last.args.query), db[i].Vector))
        /\ \A k \in DOMAIN last.results : last.results[k].Entry # db[i]
    /\ \E i \in DOMAIN db :
        ScoreLt(cosineSimilarity(EmbeddingOf(last.args.query), db[i].Vector), last.args.minScore)

\* C6: every persisted entry has a vector of L2 norm 1.
C6_PersistedVectorsUnitNorm ==
    \A i \in DOMAIN db : UnitNorm(db[i].Vector)

\* C7: every persisted entry has one of the five categories, and a write
\* asked for with any other category is persisted as "other".
C7_CategoriesValid ==
    /\ \A i \in DOMAIN db : db[i].Category \in ValidCategories
    /\ (last.op \in {"Store", "capture"} /\ last.entry # <<>>) =>
        LET asked == IF Has(last.args, "category") THEN last.args.category ELSE "other"
        IN last.entry[1].Category = IF asked \in ValidCategories THEN asked ELSE "other"

C7_BogusCategoryStored ==
    /\ last.op = "capture"
    /\ last.entry # <<>>
    /\ Has(last.args, "category")
    /\ last.args.category \notin ValidCategories
    /\ \E i \in DOMAIN db : db[i] = last.entry[1]

\* C8: the importance Capture stores is 0.5 when neither emphasis applies,
\* 0.8 when the text contains "important", at least 0.7 when it matches
\* always/never, and 0.8 when both apply.
C8_CaptureImportance ==
    (last.op = "Capture" /\ last.entry # <<>>) =>
        LET text == last.args.text
            important == Contains(ToLower(text), LitImportant)
            emphasis == MatchAnyFold(text, {LitAlways, LitNever})
            stored == last.entry[1].Importance
        IN /\ (~important /\ ~emphasis) => stored = 5
           /\ important => stored = 8
           /\ emphasis => stored >= 7
           /\ (important /\ emphasis) => stored = 8

\* C9: with no API key (argument or environment) and no model file, the
\* store is still constructed and its provider is the vocabulary-bounded
\* embedder.
C9_DefaultsToSimpleEmbedder ==
    (/\ last.op = "SetupMemoryIntegration"
     /\ last.args.apiKey = ""
     /\ env.OPENAI_API_KEY = ""
     /\ env.files = {}) =>
        /\ phase = "open"
        /\ embedder.kind = "simple"

\* C10: when the recall tool is given a category, every memory it lists has
\* that category.
C10_RecallFiltersByCategory ==
    (last.op = "recall" /\ last.err = "nil" /\ Has(last.args, "category")) =>
        \A i \in DOMAIN last.out.items : last.out.items[i].category = last.args.category

\* The ids of the rows of a table.
IdsOf(rows) == {rows[i].ID : i \in DOMAIN rows}

\* C11: under every interleaving of concurrent Store and Delete calls no
\* update is lost: a Store that returns success has added exactly its own
\* entry, a Delete that returns success has removed exactly the row with its
\* id, a Delete leaves every row with another id as it was, and the table
\* holds exactly the ids stored with success and not deleted, once each.
C11_NoLostUpdate ==
    [][/\ \A p \in Procs :
            /\ (calls[p].pc = "insert" /\ calls'[p].pc = "idle" /\ calls'[p].err = "nil") =>
                    db' = Append(db, calls'[p].entry[1])
            /\ (calls[p].pc = "delete" /\ calls'[p].pc = "idle") =>
                    LET id == calls'[p].id[1] IN
                    /\ \A i \in DOMAIN db : db[i].ID # id => \E j \in DOMAIN db' : db'[j] = db[i]
                    /\ calls'[p].err = "nil" =>
                            /\ id \in IdsOf(db)
                            /\ id \notin IdsOf(db')
                            /\ Len(db') = Len(db) - 1
       /\ IdsOf(db') = storedIds' \ deleted'
       /\ Cardinality(IdsOf(db')) = Len(db')]_vars

C11_InterleavedStoresAndDelete ==
    /\ deleted # {}
    /\ \E p \in Procs : calls[p].op = "Delete" /\ calls[p].pc = "idle" /\ calls[p].err = "nil"
    /\ \E i, j \in DOMAIN db : i < j /\ db[i].CreatedAt > db[j].CreatedAt

\* C12: every persisted entry has an importance in [0,1] (0..10 tenths),
\* whichever operation created it.
C12_ImportanceInUnitInterval ==
    \A i \in DOMAIN db : db[i].Importance >= 0 /\ db[i].Importance <= 10

\* The length of a text in characters.
CharLen(text) == Len(text)

\* The rejection rules of ShouldCapture other than the length rule, as it
\* tests them, and its trigger test.
HasMarker(text) == Contains(text, MemoryMarker)
IsWrapper(text) == OccursAt(text, <<"<">>, 1) /\ Contains(text, <<"<","/">>)

\* C13: ShouldCapture returns false for every text shorter than 10 or longer
\* than 500 characters, and a text of 10 to 500 characters that no other rule
\* rejects and that matches a trigger is accepted.
C13_LengthInCharacters ==
    fn.op = "ShouldCapture" =>
        LET n == CharLen(fn.text) IN
        /\ (n < 10 \/ n > 500) => fn.result = "false"
        /\ (/\ n >= 10
            /\ n <= 500
            /\ ~HasMarker(fn.text)
            /\ ~IsWrapper(fn.text)
            /\ EmojiCount(fn.text) <= MaxEmoji
            /\ MatchesTrigger(fn.text)) => fn.result = "true"

\* C14: ShouldCapture returns false for every text that contains the marker
\* <relevant-memories>, whatever triggers the text matches.
C14_MarkerRejected ==
    (fn.op = "ShouldCapture" /\ HasMarker(fn.text)) => fn.result = "false"

C14_MarkerWithTriggerRejected ==
    /\ fn.op = "ShouldCapture"
    /\ HasMarker(fn.text)
    /\ ~IsWrapper(fn.text)
    /\ MatchesTrigger(fn.text)
    /\ ByteLen(fn.text) >= MinCaptureLen
    /\ ByteLen(fn.text) <= MaxCaptureLen
    /\ fn.result = "false"

\* An emoji character: the pictograph blocks U+1F300..U+1FAFF and the
\* miscellaneous symbols and dingbats U+2600..U+27BF.
IsEmojiRune(r) ==
    \/ CodePoint(r) >= 127744 /\ CodePoint(r) <= 129791
    \/ CodePoint(r) >= 9728 /\ CodePoint(r) <= 10175

\* C15: ShouldCapture returns false for every text that contains more than 3
\* emoji characters, of whatever kind.
C15_EmojiHeavyRejected ==
    (/\ fn.op = "ShouldCapture"
     /\ Cardinality({i \in DOMAIN fn.text : IsEmojiRune(fn.text[i])}) > 3) =>
        fn.result = "false"

IsPreference(text) == MatchAnyFold(ToLower(text), PreferenceWords)
IsDecision(text) == MatchAnyFold(ToLower(text), DecisionWords)
IsEntity(text) ==
    \/ MatchPhone(ToLower(text))
    \/ \E a \in DOMAIN text : AtDomain(ToLower(text), a)
    \/ MatchAnyFold(ToLower(text), EntityWords)
IsFact(text) == MatchAnyFold(ToLower(text), FactWords)

\* C17: DetectCategory returns one category, by the priority preference,
\* decision, entity, fact: the category of the first pattern that matches,
\* and other when none does.
C17_FirstMatchPriority ==
    fn.op = "DetectCategory" =>
        /\ fn.result \in ValidCategories
        /\ IsPreference(fn.text) => fn.result = "preference"
        /\ (~IsPreference(fn.text) /\ IsDecision(fn.text)) => fn.result = "decision"
        /\ (~IsPreference(fn.text) /\ ~IsDecision(fn.text) /\ IsEntity(fn.text)) =>
                fn.result = "entity"
        /\ (/\ ~IsPreference(fn.text)
            /\ ~IsDecision(fn.text)
            /\ ~IsEntity(fn.text)
            /\ IsFact(fn.text)) => fn.result = "fact"
        /\ (/\ ~IsPreference(fn.text)
            /\ ~IsDecision(fn.text)
            /\ ~IsEntity(fn.text)
            /\ ~IsFact(fn.text)) => fn.result = "other"

C17_SeveralPatternsMatch ==
    /\ fn.op = "DetectCategory"
    /\ IsPreference(fn.text)
    /\ IsDecision(fn.text)
    /\ IsEntity(fn.text) \/ IsFact(fn.text)
    /\ fn.result = "preference"

\* C18: Capture on a text that ShouldCapture rejects returns (nil, nil) and
\* is a no-op: no embedding is asked for, no id or timestamp is taken, no
\* entry is written and the table is as before.
C18_RejectedCaptureIsNoOp ==
    [][(last'.op = "Capture" /\ ~AutoCaptureOf[last'.args.text].ShouldCapture) =>
          /\ last'.err = "nil"
          /\ last'.entry = <<>>
          /\ ~last'.embedErr
          /\ ~last'.exec
          /\ db' = db
          /\ nextId' = nextId
          /\ clock' = clock
          /\ storedIds' = storedIds]_vars

C18_RejectedCaptureOnRemoteEmbedder ==
    /\ last.op = "Capture"
    /\ ~AutoCaptureOf[last.args.text].ShouldCapture
    /\ last.err = "nil"
    /\ embedder.kind = "openai"
    /\ Len(db) > 0

\* C19: a Search called with limit <= 0 returns what the same Search returns
\* when called with the configured MaxResults, one called with minScore <= 0
\* what it returns with the configured MinScore; positive arguments are used
\* as given.
C19_SearchDefaults ==
    (last.op = "Search" /\ last.err = "nil") =>
        LET a == last.args
            limit == IF a.limit <= 0 THEN config.MaxResults ELSE a.limit
            minScore == IF a.minScore.d <= 0 THEN config.MinScore ELSE a.minScore
            explicit == SearchResult(a.query, limit, minScore,
                                     [err |-> FALSE, vec |-> EmbeddingOf(a.query)])
        IN /\ limit > 0
           /\ minScore.d > 0
           /\ last.results = explicit.results
           /\ Len(last.results) <= limit
           /\ \A k \in DOMAIN last.results : ScoreLeq(minScore, last.results[k].Score)

C19_DefaultsApplied ==
    /\ last.op = "Search"
    /\ last.err = "nil"
    /\ last.args.limit <= 0
    /\ last.args.minScore.d <= 0
    /\ Len(last.results) = config.MaxResults
    /\ Len(db) > config.MaxResults

\* No row of the table reaches the threshold for the query.
NoneQualifies(query, minScore) ==
    \A i \in DOMAIN db :
        ScoreLt(cosineSimilarity(EmbeddingOf(query), db[i].Vector), minScore)

\* C20: no match is not an error: when the table is empty or no row reaches
\* the threshold, a Search whose embedding succeeds returns an empty list and
\* no error, and the recall tool returns "No relevant memories found." and
\* no error.
C20_NoMatchIsNotAnError ==
    /\ (/\ last.op = "Search"
        /\ ~last.embedErr
        /\ NoneQualifies(last.args.query,
                         IF last.args.minScore.d <= 0 THEN config.MinScore
                         ELSE last.args.minScore)) =>
            /\ last.err = "nil"
            /\ last.results = <<>>
    /\ (/\ last.op = "recall"
        /\ Has(last.args, "query")
        /\ ~last.embedErr
        /\ NoneQualifies(last.args.query, Half)) =>
            /\ last.err = "nil"
            /\ last.out = ToolOutput("No relevant memories found.", <<>>)

C20_UnreachableThresholdOnPopulatedStore ==
    /\ last.op = "Search"
    /\ last.args.minScore = Tenth11
    /\ \E i \in DOMAIN db : db[i].Text = last.args.query
    /\ last.err = "nil"
    /\ last.results = <<>>

\* C21: after any sequence of Store and Delete calls, Count returns the number
\* of rows now persisted, which is the number of Store calls that returned
\* success minus the number of Delete calls that returned success (ids are
\* unique, so each successful call is one id of storedIds or deleted).
C21_CountIsStoresMinusDeletes ==
    last.op = "Count" =>
        /\ last.err = "nil"
        /\ last.count = Len(db)
        /\ last.count = Cardinality(storedIds) - Cardinality(deleted)

\* Count after stores and a successful Delete, with entries left.
C21_CountAfterStoresAndDelete ==
    /\ last.op = "Count"
    /\ last.count >= 1
    /\ deleted # {}
    /\ Cardinality(storedIds) >= 2

\* C22: entries are append/delete only.  In every step each persisted row is
\* either still persisted with every field unchanged, or the step is the
\* successful Delete of that row's own id; no step leaves a row under the same
\* id with other fields.
C22_AppendDeleteOnly ==
    [][\A i \in DOMAIN db :
          \/ \E j \in DOMAIN db' : db'[j] = db[i]
          \/ /\ last'.op = "Delete"
             /\ last'.err = "nil"
             /\ last'.args.id = db[i].ID
             /\ \A j \in DOMAIN db' : db'[j].ID # db[i].ID]_vars

\* An older entry has gone through a Store of the same text and the Delete of
\* another entry's id.
C22_EntrySurvivedStoreAndDelete ==
    /\ last.op = "Delete"
    /\ last.err = "nil"
    /\ \E i, j \in DOMAIN db :
        /\ i < j
        /\ db[i].Text = db[j].Text
        /\ db[i].ID # last.args.id

\* C23: all vectors persisted in one store have one length, the Dimensions()
\* of the store's embedder, whichever backend produced them.
C23_VectorsHaveEmbedderDimensions ==
    \A i \in DOMAIN db : db[i].Vector.len = embedder.dims

\* C24: a failure of the memory search or of an auto-capture never fails the
\* turn.  Whenever the inner agent returned a response without error, what
\* ProcessMessage returns is that response and a nil error.
C24_MemoryFailuresNeverFailTurn ==
    \A p \in Procs :
        (calls[p].op = "ProcessMessage" /\ calls[p].pc = "idle" /\ calls[p].inner.err = "nil")
            => calls[p].ret = [response |-> calls[p].inner.response, err |-> "nil"]

\* A turn has returned whose search failed and whose auto-capture failed, on a
\* store that already holds an entry.
C24_TurnReturnedAfterMemoryFailures ==
    \E p \in Procs :
        /\ calls[p].op = "ProcessMessage"
        /\ calls[p].pc = "idle"
        /\ calls[p].inner.err = "nil"
        /\ calls[p].searchErr
        /\ calls[p].captureErrs # {}
        /\ Len(db) >= 1

\* C28: no memory-augmented prompt can be captured again.  Every text that
\* enhanceWithMemories or MemoryContextEnhancer.Enhance builds from at least
\* one memory is rejected by ShouldCapture.
C28_AugmentedPromptNotRecaptured ==
    /\ \A p \in Procs :
          (calls[p].op = "ProcessMessage" /\ Len(calls[p].memories) >= 1)
              => ~ShouldCapture(calls[p].prompt)
    /\ (fn.op = "Enhance" /\ fn.result # fn.text) => ~ShouldCapture(fn.result)

\* C25: the capture tool.  Without a text, or with an empty one, it returns
\* an error and the table is unchanged.  With a text it calls Store once,
\* whatever ShouldCapture says of the text: either that Store fails and the
\* table is unchanged, or exactly one row is appended, holding the text, the
\* given category ("other" when none or an unknown one is given) and the given
\* importance (0.5 when none is given), and the output names the row's id.
C25_CaptureToolStoresOnce ==
    [][last'.op = "capture" =>
          LET params == last'.args IN
          IF ~Has(params, "text") \/ params.text = TxtEmpty THEN
              /\ last'.err = "text parameter is required"
              /\ db' = db
          ELSE \/ /\ last'.err = "failed to store memory"
                  /\ db' = db
               \/ /\ last'.err = "nil"
                  /\ Len(db') = Len(db) + 1
                  /\ SubSeq(db', 1, Len(db)) = db
                  /\ LET e == db'[Len(db')] IN
                     /\ e.Text = params.text
                     /\ e.Category = IF Has(params, "category") /\ params.category \in ValidCategories
                                     THEN params.category ELSE "other"
                     /\ e.Importance = IF Has(params, "importance") THEN params.importance ELSE 5
                     /\ e.ID \notin IdsOf(db)
                     /\ last'.out.items = <<e.ID>>]_vars

\* The capture tool has stored, with the defaults, a text ShouldCapture rejects.
C25_UngatedCaptureWithDefaults ==
    /\ last.op = "capture"
    /\ last.err = "nil"
    /\ last.args = [text |-> TxtAb]
    /\ ~ShouldCapture(TxtAb)
    /\ db # <<>>
    /\ db[Len(db)].ID = last.out.items[1]
    /\ db[Len(db)].Category = "other"
    /\ db[Len(db)].Importance = 5

C27_DeleteExactIdOnly ==
    [][last'.op = "Delete" =>
          LET id == last'.args.id IN
          /\ db' = SelectSeq(db, LAMBDA r : r.ID # id)
          /\ Len(db) - Len(db') <= 1
          /\ (id.form = "upper" /\ ToLowerId(id) \in IdsOf(db)) =>
                 /\ db' = db
                 /\ last'.err = "memory not found"]_vars

\* Delete was called with the upper-case spelling of the id of a stored entry,
\* beside another entry.
C27_UpperCaseIdOfStoredEntry ==
    /\ last.op = "Delete"
    /\ last.args.id.form = "upper"
    /\ last.err = "memory not found"
    /\ ToLowerId(last.args.id) \in IdsOf(db)
    /\ Len(db) >= 2

\* C29: startThinking stops the previous thinking animation of the chat.
\* Under every interleaving of handleMessage and Send, the typing actions
\* sent at ticks to a chat since its latest startThinking all come from one
\* refresh goroutine.
C29_OneRefreshLoopPerChat ==
    \A chat \in Chats : Cardinality(thinking.refreshers[chat]) <= 1

\* C30: SendLargeMessageParallel sends the chunks of a message in increasing
\* chunk order: of two SendMessage calls of one message, the one issued
\* first carries the lower chunk number.
C30_ChunksSentInIndexOrder ==
    \A i, j \in DOMAIN stream.sent :
        i < j => stream.sent[i].current < stream.sent[j].current

=============================================================================
